---- MODULE Spec2Model ----
(***************************************************************************)
(* A model of evsieve's event-processing runtime: the stream runner of     *)
(* src/src/stream.rs (run, wakeup, syn, run_event, run_wakeup) and the     *)
(* dispatch loop of src/src/main.rs (run, handle_ready_file,               *)
(* handle_broken_file, count_remaining_input_devices).                     *)
(*                                                                         *)
(* The loopback timer, the stream entries (Map, Delay, Print), the output  *)
(* system, the poller and the persistence interface are not part of the    *)
(* source files at hand; they are modelled after their description in the  *)
(* specification document (sections 4.4 - 4.10).                           *)
(***************************************************************************)
EXTENDS Integers, Sequences, FiniteSets, TLC

(***************************************************************************)
(* Bounds of the model.                                                    *)
(***************************************************************************)
\* The number of stream::run calls of one behaviour.
MaxRuns == 3
\* The last instant of the clock.
MaxTime == 2

VARIABLES
    setup,      \* stream.rs Setup: stream, output, loopback, staged_events
    now,        \* the monotonic clock (Instant::now())
    pc,         \* the position of the caller inside stream::wakeup
    nruns,      \* how many times stream::run has been called
    popped,     \* how many tokens the current wakeup() call has popped
    delivered,  \* history: the tokens handed to run_wakeup and the entries woken
    visits,     \* history: the entry applications of the last pass
    last_event, \* history: the event of the last stream::run call
    report,     \* history: per input device, its report in progress
    epoll,      \* main.rs Program.epoll: the files, by FileIndex
    persist_subsystem,  \* main.rs Program.persist_subsystem
    quiet,      \* the kernel will not wake the blocked poll() any more
    messages,   \* the messages of the poll() batch not yet handled
    loop,       \* the position of main.rs run() in its dispatch loop
    awaited,    \* persist_subsystem.await_shutdown has been called
    last_action,\* history: the last message handled and its Action
    kernel,     \* the kernel side of the input devices, per domain
    last_caps,  \* history: the last update_caps or run_caps call
    process,    \* main.rs main(): how far the process is and how run() ended
    input_system \* input.rs InputSystem: epoll, broken_devices, and history

streamvars == <<pc, popped, delivered, visits, last_event, report>>

loopvars ==
    <<epoll, persist_subsystem, quiet, messages, loop, awaited, last_action,
      kernel, last_caps, process, input_system>>

loopvars_but_process ==
    <<epoll, persist_subsystem, quiet, messages, loop, awaited, last_action,
      kernel, last_caps, input_system>>

vars == <<setup, now, nruns, streamvars, loopvars>>

(***************************************************************************)
(* Events (src/src/event.rs).                                              *)
(***************************************************************************)
Namespace == {"Input", "User", "Yielded", "Output"}

Domains == {"d1", "d2"}

Event(ev_type, code, value, previous_value, domain, namespace) ==
    [ev_type |-> ev_type, code |-> code, value |-> value,
     previous_value |-> previous_value, domain |-> domain,
     namespace |-> namespace]

\* The event codes of the model.
Codes == {"KEY_A", "ABS_X", "SYN_REPORT"}

\* EventCode::ev_type.
ev_type(code) ==
    IF code = "SYN_REPORT" THEN "EV_SYN"
    ELSE IF code = "KEY_A" THEN "EV_KEY" ELSE "EV_ABS"

\* EventType::is_key of the type of a code.
is_key(code) == ev_type(code) = "EV_KEY"

\* EventType::is_syn, as used by stream::run.
is_syn(event) == event.ev_type = "EV_SYN"

\* A key event of device d, stamped with namespace ns.
KeyEvent(d, ns) == Event("EV_KEY", "KEY_A", 1, 0, d, ns)

\* The SYN_REPORT that ends a report of device d.
SynReport(d) == Event("EV_SYN", "SYN_REPORT", 0, 0, d, "Input")

\* An event of type EV_SYN that is not a SYN_REPORT: the SYN_MT_REPORT a
\* multi-touch device of protocol A sends between the contacts of a report.
SynMtReport(d) == Event("EV_SYN", "SYN_MT_REPORT", 0, 0, d, "Input")

\* The events handed to stream::run: key events of the first device in
\* every namespace, key events of the second device stamped Output, and
\* the SYN_REPORT of either device.
InputEvents ==
    {KeyEvent("d1", ns) : ns \in Namespace}
        \cup {KeyEvent("d2", "Output")}
        \cup {SynReport(d) : d \in Domains}

\* The events of InputEvents and the SYN_MT_REPORT of the first device.
SynEvents == InputEvents \cup {SynMtReport("d1")}

(***************************************************************************)
(* Helpers on sequences.                                                   *)
(***************************************************************************)
RECURSIVE Concat(_)
Concat(seqs) ==
    IF seqs = <<>> THEN <<>> ELSE Head(seqs) \o Concat(Tail(seqs))

Filter(seq, P(_)) == SelectSeq(seq, P)

RemoveAt(seq, i) == SubSeq(seq, 1, i - 1) \o SubSeq(seq, i + 1, Len(seq))

\* HashMap::insert: the map with the value of a key set.
Insert(map, key, value) ==
    [k \in (DOMAIN map) \cup {key} |-> IF k = key THEN value ELSE map[k]]

Min(a, b) == IF a <= b THEN a ELSE b

Max(a, b) == IF a >= b THEN a ELSE b

(***************************************************************************)
(* The loopback timer (specification 4.5): a schedule of (instant, token)  *)
(* pairs, kept in insertion order, and a counter that names the tokens.    *)
(***************************************************************************)
Loopback_new == [schedule |-> <<>>, token_index |-> 0]

\* The clock of a handle that stamps "now" on first use.
get_handle_lazy(t) == t

\* The clock of a handle of a wake-up pass: fixed at the token's instant.
get_handle(instant) == instant

\* LoopbackHandle::schedule: a fresh token, due `delay` after the handle's clock.
schedule_wakeup_in(loopback, clock, delay) ==
    [token |-> loopback.token_index,
     loopback |->
        [schedule |-> Append(loopback.schedule,
                             [instant |-> clock + delay,
                              token |-> loopback.token_index]),
         token_index |-> loopback.token_index + 1]]

\* The positions of the schedule whose instant has passed at time t.
DuePositions(loopback, t) ==
    {i \in DOMAIN loopback.schedule : loopback.schedule[i].instant <= t}

\* The due position to fire first: the least instant, then the oldest.
FirstDue(loopback, t) ==
    CHOOSE i \in DuePositions(loopback, t) :
        \A j \in DuePositions(loopback, t) :
            \/ loopback.schedule[i].instant < loopback.schedule[j].instant
            \/ /\ loopback.schedule[i].instant = loopback.schedule[j].instant
               /\ i <= j

\* Loopback::poll_once: pops one entry whose instant has passed, if any.
poll_once(loopback, t) ==
    IF DuePositions(loopback, t) = {}
    THEN [some |-> FALSE, instant |-> 0, token |-> 0, loopback |-> loopback]
    ELSE [some |-> TRUE,
          instant |-> loopback.schedule[FirstDue(loopback, t)].instant,
          token |-> loopback.schedule[FirstDue(loopback, t)].token,
          loopback |->
             [loopback EXCEPT
                 !.schedule = RemoveAt(@, FirstDue(loopback, t))]]

\* The least instant of a non-empty schedule.
NextInstant(loopback) ==
    CHOOSE m \in {e.instant : e \in {loopback.schedule[i] : i \in DOMAIN loopback.schedule}} :
        \A i \in DOMAIN loopback.schedule : m <= loopback.schedule[i].instant

\* Loopback::time_until_next_wakeup: Never, or At(duration).
Loopback_time_until_next_wakeup(loopback, t) ==
    IF loopback.schedule = <<>>
    THEN [never |-> TRUE, duration |-> 0]
    ELSE [never |-> FALSE,
          duration |-> IF NextInstant(loopback) > t
                       THEN NextInstant(loopback) - t ELSE 0]

(***************************************************************************)
(* Stream entries (specification 4.6).  Every entry carries the same       *)
(* fields; `state` is the runtime state of a Delay entry: a FIFO of        *)
(* (token, events).                                                        *)
(***************************************************************************)
\* The value range of every code of the model.
ValueRange == [min |-> 0, max |-> 1]

InRange(value, range) == range.min <= value /\ value <= range.max

StreamEntry(kind, from_ns, to_ns, copies, period) ==
    [kind |-> kind, from_ns |-> from_ns, to_ns |-> to_ns,
     copies |-> copies, period |-> period, value |-> ValueRange,
     state |-> <<>>]

\* A Map that rewrites every event of namespace from_ns into n events of
\* namespace to_ns and writes every other event unchanged.
MapEntry(from_ns, to_ns, n) == StreamEntry("Map", from_ns, to_ns, n, 0)

\* A Map that rewrites the events of namespace from_ns whose value is v
\* into one event of namespace to_ns and writes every other event unchanged.
MapValueEntry(from_ns, to_ns, v) ==
    [MapEntry(from_ns, to_ns, 1) EXCEPT !.value = [min |-> v, max |-> v]]

\* A Delay that defers the User events by `period`.
DelayEntry(period) == StreamEntry("Delay", "User", "User", 1, period)

PrintEntry == StreamEntry("Print", "User", "User", 1, 0)

MergeEntry == StreamEntry("Merge", "User", "User", 1, 0)

WithholdEntry == StreamEntry("Withhold", "User", "User", 1, 0)

\* A Map that matches the capabilities of namespace ns in the value range
\* lo .. hi and leaves their namespace, so that it splits a wider range.
MapRangeEntry(ns, lo, hi) ==
    [MapEntry(ns, ns, 1) EXCEPT !.value = [min |-> lo, max |-> hi]]

RECURSIVE Copies(_, _)
Copies(event, n) == IF n = 0 THEN <<>> ELSE <<event>> \o Copies(event, n - 1)

\* Map::apply_to_all.
RECURSIVE Map_apply_to_all(_, _)
Map_apply_to_all(map, events) ==
    IF events = <<>> THEN <<>>
    ELSE (IF /\ Head(events).namespace = map.from_ns
             /\ InRange(Head(events).value, map.value)
          THEN Copies([Head(events) EXCEPT !.namespace = map.to_ns], map.copies)
          ELSE <<Head(events)>>)
         \o Map_apply_to_all(map, Tail(events))

IsUser(event) == event.namespace = "User"
NotUser(event) == event.namespace # "User"

\* Delay::apply_to_all: the matching events are withheld under a fresh
\* token scheduled `period` after the handle's clock; the others are written.
Delay_apply_to_all(delay, events, loopback, clock) ==
    IF Filter(events, IsUser) = <<>>
    THEN [entry |-> delay, events |-> events, loopback |-> loopback]
    ELSE [entry |->
             [delay EXCEPT !.state =
                 Append(@, [token |-> schedule_wakeup_in(loopback, clock, delay.period).token,
                            events |-> Filter(events, IsUser)])],
          events |-> Filter(events, NotUser),
          loopback |-> schedule_wakeup_in(loopback, clock, delay.period).loopback]

RECURSIVE EventsOfToken(_, _)
EventsOfToken(state, token) ==
    IF state = <<>> THEN <<>>
    ELSE (IF Head(state).token = token THEN Head(state).events ELSE <<>>)
         \o EventsOfToken(Tail(state), token)

RECURSIVE WithoutToken(_, _)
WithoutToken(state, token) ==
    IF state = <<>> THEN <<>>
    ELSE (IF Head(state).token = token THEN <<>> ELSE <<Head(state)>>)
         \o WithoutToken(Tail(state), token)

\* Delay::wakeup: emits the events withheld under the token, oldest first;
\* a token the entry did not schedule emits nothing.
Delay_wakeup(delay, token) ==
    [entry |-> [delay EXCEPT !.state = WithoutToken(@, token)],
     events |-> EventsOfToken(delay.state, token)]

(***************************************************************************)
(* The output system (specification 4.7, 4.8): one virtual device per      *)
(* domain; every device keeps the log of what has been written to it.      *)
(***************************************************************************)
OutputDevices == {"out1", "out2"}

\* The output device that the events of a domain are routed to.
DeviceOf(domain) == IF domain = "d1" THEN "out1" ELSE "out2"

\* The SYN_REPORT an output device emits on synchronize().
OutputSyn == Event("EV_SYN", "SYN_REPORT", 0, 0, "out", "Output")

OutputSystem_create == [o \in OutputDevices |-> <<>>]

\* The events of a batch that are routed to the device o, in order.
RECURSIVE RoutedTo(_, _)
RoutedTo(events, o) ==
    IF events = <<>> THEN <<>>
    ELSE (IF DeviceOf(Head(events).domain) = o THEN <<Head(events)>> ELSE <<>>)
         \o RoutedTo(Tail(events), o)

\* OutputSystem::route_events.
route_events(output, events) ==
    [o \in OutputDevices |-> output[o] \o RoutedTo(events, o)]

\* OutputSystem::synchronize.
synchronize(output) ==
    [o \in OutputDevices |-> Append(output[o], OutputSyn)]

(***************************************************************************)
(* Capabilities (specification 4.2, 4.6, 4.8).  The capabilities of a      *)
(* device are the set of codes it supports; a Capability says that events  *)
(* of a code, a domain and a namespace with a value in a range can occur.  *)
(***************************************************************************)
Capability(code, domain, namespace, value) ==
    [ev_type |-> ev_type(code), code |-> code, domain |-> domain,
     namespace |-> namespace, value |-> value]

\* The order in which input_caps_to_vec lists the domains and the codes.
DomainOrder == <<"d1", "d2">>

CodeOrder == <<"KEY_A", "ABS_X", "SYN_REPORT">>

\* Capabilities::to_vec_from_domain_and_namespace.
RECURSIVE to_vec_from_domain_and_namespace(_, _, _, _)
to_vec_from_domain_and_namespace(order, capabilities, domain, namespace) ==
    IF order = <<>> THEN <<>>
    ELSE (IF Head(order) \in capabilities
          THEN <<Capability(Head(order), domain, namespace, ValueRange)>>
          ELSE <<>>)
         \o to_vec_from_domain_and_namespace(Tail(order), capabilities,
                                             domain, namespace)

\* The loop of input_caps_to_vec over the domains of the map.
RECURSIVE caps_of_domains(_, _)
caps_of_domains(order, input_caps) ==
    IF order = <<>> THEN <<>>
    ELSE (IF Head(order) \in DOMAIN input_caps
          THEN to_vec_from_domain_and_namespace(CodeOrder, input_caps[Head(order)],
                                                Head(order), "Input")
          ELSE <<>>)
         \o caps_of_domains(Tail(order), input_caps)

\* capability::input_caps_to_vec.
input_caps_to_vec(input_caps) == caps_of_domains(DomainOrder, input_caps)

\* Capabilities::is_compatible_with: no code that the old set lacks.
is_compatible_with(new_caps, old_caps) == new_caps \subseteq old_caps

Intersects(a, b) == a.min <= b.max /\ b.min <= a.max

\* Map::apply_to_all_caps: a capability the Map can match is rewritten for
\* the matching part of its value range, and the parts of its range that do
\* not match are written unchanged; every other capability is written
\* unchanged.
RECURSIVE Map_apply_to_all_caps(_, _)
Map_apply_to_all_caps(map, caps) ==
    IF caps = <<>> THEN <<>>
    ELSE LET cap == Head(caps)
         IN  (IF cap.namespace = map.from_ns /\ Intersects(cap.value, map.value)
              THEN Copies([cap EXCEPT
                              !.namespace = map.to_ns,
                              !.value = [min |-> Max(cap.value.min, map.value.min),
                                         max |-> Min(cap.value.max, map.value.max)]],
                          map.copies)
                   \o (IF cap.value.min < map.value.min
                       THEN <<[cap EXCEPT !.value.max = map.value.min - 1]>>
                       ELSE <<>>)
                   \o (IF cap.value.max > map.value.max
                       THEN <<[cap EXCEPT !.value.min = map.value.max + 1]>>
                       ELSE <<>>)
              ELSE <<cap>>)
             \o Map_apply_to_all_caps(map, Tail(caps))

\* Two capabilities agree on type, code, domain and namespace.
SameButValue(a, b) ==
    /\ a.ev_type = b.ev_type
    /\ a.code = b.code
    /\ a.domain = b.domain
    /\ a.namespace = b.namespace

\* The range that spans the ranges of the capabilities.
RECURSIVE Span(_, _)
Span(range, caps) ==
    IF caps = <<>> THEN range
    ELSE Span([min |-> Min(range.min, Head(caps).value.min),
               max |-> Max(range.max, Head(caps).value.max)], Tail(caps))

\* capability::aggregate_capabilities: the capabilities that differ only in
\* their value range are merged into one.
RECURSIVE aggregate_capabilities(_)
aggregate_capabilities(caps) ==
    IF caps = <<>> THEN <<>>
    ELSE LET same == SelectSeq(Tail(caps), LAMBDA c : SameButValue(c, Head(caps)))
             others == SelectSeq(Tail(caps), LAMBDA c : ~SameButValue(c, Head(caps)))
         IN  <<[Head(caps) EXCEPT !.value = Span(@, same)]>>
                 \o aggregate_capabilities(others)

IsOutputCap(cap) == cap.namespace = "Output"

\* A match of run_caps whose arm for Delay merges the capabilities.
apply_to_all_caps_delay_merges(entry, caps) ==
    CASE entry.kind = "Map" -> Map_apply_to_all_caps(entry, caps)
      [] entry.kind = "Merge" -> caps
      [] entry.kind = "Print" -> caps
      [] entry.kind = "Delay" -> aggregate_capabilities(caps)
      [] entry.kind = "Withhold" -> caps

\* The match of run_caps: the entry applied to the capabilities.  The arms
\* of Merge, Print, Delay and Withhold are `()`.
apply_to_all_caps(entry, caps) ==
    CASE entry.kind = "Map" -> Map_apply_to_all_caps(entry, caps)
      [] entry.kind = "Merge" -> caps
      [] entry.kind = "Print" -> caps
      [] entry.kind = "Delay" -> caps
      [] entry.kind = "Withhold" -> caps

\* A loop of run_caps without the aggregation step.
RECURSIVE run_caps_from_never_aggregates(_, _, _, _)
run_caps_from_never_aggregates(k, stream, caps, last_num_caps) ==
    IF k > Len(stream)
    THEN [caps |-> caps, sizes |-> <<>>, aggregated |-> <<>>,
          applied |-> <<>>, vectors |-> <<>>]
    ELSE LET applied == apply_to_all_caps(stream[k], caps)
             rest == run_caps_from_never_aggregates(k + 1, stream, applied,
                                                    last_num_caps)
         IN  [rest EXCEPT !.sizes = <<Len(applied)>> \o @,
                          !.aggregated = <<FALSE>> \o @,
                          !.applied = <<Len(applied)>> \o @,
                          !.vectors = <<applied>> \o @]

\* The loop of run_caps over the entries k .. Len(stream).  For every entry
\* `applied` records the length of the vector the match left, `aggregated`
\* whether the aggregation step ran after it, `sizes` the length of the
\* vector after that and `vectors` the vector itself.
RECURSIVE run_caps_from(_, _, _, _)
run_caps_from(k, stream, caps, last_num_caps) ==
    IF k > Len(stream)
    THEN [caps |-> caps, sizes |-> <<>>, aggregated |-> <<>>,
          applied |-> <<>>, vectors |-> <<>>]
    ELSE LET applied == apply_to_all_caps(stream[k], caps)
             merge == Len(applied) >= 2 * last_num_caps
             after == IF merge THEN aggregate_capabilities(applied) ELSE applied
             rest == run_caps_from(k + 1, stream, after,
                                   IF merge THEN Len(after) ELSE last_num_caps)
         IN  [rest EXCEPT !.sizes = <<Len(after)>> \o @,
                          !.aggregated = <<merge>> \o @,
                          !.applied = <<Len(applied)>> \o @,
                          !.vectors = <<after>> \o @]

\* A run_caps that stops at the first entry that holds runtime state.
run_caps_stateful(stream, capabilities) ==
    LET held == {k \in DOMAIN stream : stream[k].state # <<>>}
        last == IF held = {} THEN Len(stream)
                ELSE (CHOOSE k \in held : \A j \in held : k <= j) - 1
    IN  Filter(run_caps_from(1, SubSeq(stream, 1, last), capabilities,
                             Len(capabilities)).caps,
               IsOutputCap)

\* A run_caps that returns the capabilities of every namespace.
run_caps_unfiltered(stream, capabilities) ==
    run_caps_from(1, stream, capabilities, Len(capabilities)).caps

\* stream::run_caps.
run_caps(stream, capabilities) ==
    Filter(run_caps_from(1, stream, capabilities, Len(capabilities)).caps,
           IsOutputCap)

\* OutputSystem::update_caps: the output devices take the new capabilities.
OutputSystem_update_caps(output_caps, caps_out) == caps_out

(***************************************************************************)
(* The stream runner (src/src/stream.rs).                                  *)
(***************************************************************************)
IsOutput(event) == event.namespace = "Output"

\* Setup::create: the state of a fresh Setup for a stream and the
\* capabilities of the input devices; `output_caps` are the capabilities
\* the output system has been created with.
Setup_create(stream, input_caps) ==
    [stream |-> stream,
     output |-> OutputSystem_create,
     output_caps |-> run_caps(stream, input_caps_to_vec(input_caps)),
     input_caps |-> input_caps,
     loopback |-> Loopback_new,
     staged_events |-> <<>>]

\* An update_caps that hands the new capabilities to the output system
\* whatever the previous capabilities of the domain are.
update_caps_always(s, new_device) ==
    LET inserted == Insert(s.input_caps, new_device.domain, new_device.capabilities)
    IN  [updated |-> TRUE,
         setup |-> [s EXCEPT
                      !.input_caps = inserted,
                      !.output_caps =
                          OutputSystem_update_caps(
                              @, run_caps(s.stream, input_caps_to_vec(inserted)))]]

\* Setup::update_caps; `updated`: output.update_caps has been called.
update_caps(s, new_device) ==
    LET inserted == Insert(s.input_caps, new_device.domain, new_device.capabilities)
    IN  IF /\ new_device.domain \in DOMAIN s.input_caps
           /\ is_compatible_with(new_device.capabilities,
                                 s.input_caps[new_device.domain])
        THEN [updated |-> FALSE, setup |-> [s EXCEPT !.input_caps = inserted]]
        ELSE [updated |-> TRUE,
              setup |-> [s EXCEPT
                           !.input_caps = inserted,
                           !.output_caps =
                               OutputSystem_update_caps(
                                   @, run_caps(s.stream, input_caps_to_vec(inserted)))]]

\* Setup::time_until_next_wakeup.
time_until_next_wakeup(s, t) == Loopback_time_until_next_wakeup(s.loopback, t)

\* A syn that clears the staged buffer before it routes it.
syn_clear_first(s) ==
    [s EXCEPT !.output = synchronize(route_events(s.output, <<>>)),
              !.staged_events = <<>>]

\* A syn that synchronizes the output devices before it routes the events.
syn_synchronize_first(s) ==
    [s EXCEPT !.output = route_events(synchronize(s.output), s.staged_events),
              !.staged_events = <<>>]

\* stream::syn: route, clear, synchronize.
syn(s) ==
    [s EXCEPT !.output = synchronize(route_events(s.output, s.staged_events)),
              !.staged_events = <<>>]

\* A match of run_event whose Print arm swaps the batch with the empty
\* buffer, as the other arms do.
apply_to_all_print_swaps(entry, events, loopback, clock) ==
    CASE entry.kind = "Map" ->
            [entry |-> entry, events |-> Map_apply_to_all(entry, events),
             loopback |-> loopback]
      [] entry.kind = "Delay" ->
            Delay_apply_to_all(entry, events, loopback, clock)
      [] entry.kind = "Print" ->
            [entry |-> entry, events |-> <<>>, loopback |-> loopback]

\* One arm of the match of run_event: the entry applied to the batch.
apply_to_all(entry, events, loopback, clock) ==
    CASE entry.kind = "Map" ->
            [entry |-> entry, events |-> Map_apply_to_all(entry, events),
             loopback |-> loopback]
      [] entry.kind = "Delay" ->
            Delay_apply_to_all(entry, events, loopback, clock)
      [] entry.kind = "Print" ->
            [entry |-> entry, events |-> events, loopback |-> loopback]

\* The loop of run_event over the entries first .. Len(stream); `applied`
\* records, per entry applied, its index, the batch it was given and the
\* batch it left.
RECURSIVE apply_entries(_, _, _, _, _)
apply_entries(k, events, stream, loopback, clock) ==
    IF k > Len(stream)
    THEN [events |-> events, stream |-> stream, loopback |-> loopback,
          applied |-> <<>>]
    ELSE LET r == apply_to_all(stream[k], events, loopback, clock)
             rest == apply_entries(k + 1, r.events,
                                   [stream EXCEPT ![k] = r.entry],
                                   r.loopback, clock)
         IN  [rest EXCEPT !.applied = <<[index |-> k, events |-> events,
                                         written |-> r.events]>> \o @]

\* A run_event that appends the whole final batch, whatever the namespace.
run_event_unfiltered(event_in, events_out, stream, loopback, clock, first) ==
    LET r == apply_entries(first, <<event_in>>, stream, loopback, clock)
    IN  [events_out |-> events_out \o r.events,
         stream |-> r.stream,
         loopback |-> r.loopback,
         applied |-> r.applied]

\* A run_event that appends the Output events of the final batch twice.
run_event_duplicating(event_in, events_out, stream, loopback, clock, first) ==
    LET r == apply_entries(first, <<event_in>>, stream, loopback, clock)
    IN  [events_out |-> events_out \o Filter(r.events, IsOutput)
                                   \o Filter(r.events, IsOutput),
         stream |-> r.stream,
         loopback |-> r.loopback,
         applied |-> r.applied]

\* run_event on the substream that starts at the entry `first`.
run_event(event_in, events_out, stream, loopback, clock, first) ==
    LET r == apply_entries(first, <<event_in>>, stream, loopback, clock)
    IN  [events_out |-> events_out \o Filter(r.events, IsOutput),
         stream |-> r.stream,
         loopback |-> r.loopback,
         applied |-> r.applied]

\* The match of run_wakeup: the wakeup of one entry.
entry_wakeup(entry, token) ==
    IF entry.kind = "Delay"
    THEN Delay_wakeup(entry, token)
    ELSE [entry |-> entry, events |-> <<>>]

\* The drain loop of run_wakeup: the events emitted by the entry `index`
\* are run, one by one, on the substream that starts at `first`.
RECURSIVE drain(_, _, _, _, _)
drain(events, index, first, clock, acc) ==
    IF events = <<>> THEN acc
    ELSE LET r == run_event(Head(events), acc.events_out, acc.stream,
                            acc.loopback, clock, first)
         IN  drain(Tail(events), index, first, clock,
                   [events_out |-> r.events_out,
                    stream |-> r.stream,
                    loopback |-> r.loopback,
                    woken |-> acc.woken,
                    passes |-> Append(acc.passes,
                                      [index |-> index,
                                       event |-> Head(events),
                                       applied |-> r.applied])])

\* An iteration of run_wakeup that feeds the emitted events to the
\* substream that starts at the waking entry itself.
run_wakeup_entry_reenter(index, token, clock, acc) ==
    drain(entry_wakeup(acc.stream[index], token).events, index, index, clock,
          [acc EXCEPT !.stream[index] = entry_wakeup(acc.stream[index], token).entry,
                      !.woken = Append(@, index)])

\* One iteration of the loop of run_wakeup: wake the entry, then feed what
\* it emitted to the entries after it; `woken` records the entries woken.
run_wakeup_entry(index, token, clock, acc) ==
    drain(entry_wakeup(acc.stream[index], token).events, index, index + 1, clock,
          [acc EXCEPT !.stream[index] = entry_wakeup(acc.stream[index], token).entry,
                      !.woken = Append(@, index)])

RECURSIVE run_wakeup_from(_, _, _, _)
run_wakeup_from(index, token, clock, acc) ==
    IF index > Len(acc.stream) THEN acc
    ELSE run_wakeup_from(index + 1, token, clock,
                         run_wakeup_entry(index, token, clock, acc))

\* stream::run_wakeup.
run_wakeup(token, events_out, stream, loopback, clock) ==
    run_wakeup_from(1, token, clock,
                    [events_out |-> events_out, stream |-> stream,
                     loopback |-> loopback, passes |-> <<>>, woken |-> <<>>])

\* stream::run at time t.
run(s, event, t) ==
    IF is_syn(event)
    THEN syn(s)
    ELSE LET r == run_event(event, s.staged_events, s.stream, s.loopback,
                            get_handle_lazy(t), 1)
         IN  [s EXCEPT !.staged_events = r.events_out,
                       !.stream = r.stream,
                       !.loopback = r.loopback]

\* A wakeup whose loop polls the next token without the syn of the pass.
wakeup_without_syn(at, s, t) ==
    IF at = "wakeup_syn"
    THEN [pc |-> "wakeup", setup |-> s, polled |-> poll_once(s.loopback, t),
          passes |-> <<>>, woken |-> <<>>]
    ELSE IF poll_once(s.loopback, t).some
    THEN LET p == poll_once(s.loopback, t)
             r == run_wakeup(p.token, s.staged_events, s.stream, p.loopback,
                             get_handle(p.instant))
         IN  [pc |-> "wakeup_syn",
              setup |-> [s EXCEPT !.staged_events = r.events_out,
                                  !.stream = r.stream,
                                  !.loopback = r.loopback],
              polled |-> p,
              passes |-> r.passes,
              woken |-> r.woken]
    ELSE [pc |-> "idle", setup |-> s, polled |-> poll_once(s.loopback, t),
          passes |-> <<>>, woken |-> <<>>]

\* A wakeup that builds the handle once, from the instant of the first
\* token of the call, and uses it for every pass of the call.
wakeup_stale_handle(at, s, t) ==
    IF at = "wakeup_syn"
    THEN [pc |-> "wakeup", setup |-> syn(s), polled |-> poll_once(s.loopback, t),
          passes |-> <<>>, woken |-> <<>>]
    ELSE IF poll_once(s.loopback, t).some
    THEN LET p == poll_once(s.loopback, t)
             first == IF popped > 0
                      THEN delivered[Len(delivered) - popped + 1].instant
                      ELSE p.instant
             r == run_wakeup(p.token, s.staged_events, s.stream, p.loopback,
                             get_handle(first))
         IN  [pc |-> "wakeup_syn",
              setup |-> [s EXCEPT !.staged_events = r.events_out,
                                  !.stream = r.stream,
                                  !.loopback = r.loopback],
              polled |-> p,
              passes |-> r.passes,
              woken |-> r.woken]
    ELSE [pc |-> "idle", setup |-> s, polled |-> poll_once(s.loopback, t),
          passes |-> <<>>, woken |-> <<>>]

\* stream::wakeup, one step of its loop at time t.  At "wakeup" the loop
\* polls the loopback: a due token is run through run_wakeup and the loop
\* goes on to its syn; without a due token the function returns.  At
\* "wakeup_syn" the pass is synchronized and the loop polls again.
wakeup(at, s, t) ==
    IF at = "wakeup_syn"
    THEN [pc |-> "wakeup", setup |-> syn(s), polled |-> poll_once(s.loopback, t),
          passes |-> <<>>, woken |-> <<>>]
    ELSE IF poll_once(s.loopback, t).some
    THEN LET p == poll_once(s.loopback, t)
             r == run_wakeup(p.token, s.staged_events, s.stream, p.loopback,
                             get_handle(p.instant))
         IN  [pc |-> "wakeup_syn",
              setup |-> [s EXCEPT !.staged_events = r.events_out,
                                  !.stream = r.stream,
                                  !.loopback = r.loopback],
              polled |-> p,
              passes |-> r.passes,
              woken |-> r.woken]
    ELSE [pc |-> "idle", setup |-> s, polled |-> poll_once(s.loopback, t),
          passes |-> <<>>, woken |-> <<>>]

(***************************************************************************)
(* Input devices (src/src/io/input.rs).                                    *)
(***************************************************************************)
GrabMode == {"None", "Force", "Auto"}

\* A call of the kernel input library: the function, the grab mode asked
\* for, the answer, and the method of InputDevice that made the call.
LibCall(fn, mode, ok, by) == [fn |-> fn, mode |-> mode, ok |-> ok, by |-> by]

\* The struct InputDevice: its domain, its persist mode, the grab mode asked
\* for, whether it is grabbed, its capabilities (the codes it supports) and
\* its state map from codes to their last known value.
InputDevice(domain, persist_mode, grab_mode, capabilities, state) ==
    [kind |-> "InputDevice", domain |-> domain, persist_mode |-> persist_mode,
     grab_mode |-> grab_mode, grabbed |-> FALSE,
     capabilities |-> capabilities, state |-> state]

\* The files of the poller that are not input devices.
OtherFile(kind) ==
    [kind |-> kind, domain |-> "none", persist_mode |-> "None",
     grab_mode |-> "None", grabbed |-> FALSE, capabilities |-> {},
     state |-> <<>>]

SignalFd == OtherFile("SignalFd")

HostInterface == OtherFile("PersistSubsystem")

\* The slot of a file that has been removed from the poller.
Vacant == OtherFile("Vacant")

\* PersistMode of the input devices of the model.
PersistModeOf(domain) == IF domain = "d1" THEN "Reopen" ELSE "None"

\* The values the library reports for a device at rest.
ZeroLevels == [c \in Codes |-> 0]

\* get_device_state: the value the library reports for every supported code.
get_device_state(levels, capabilities) == [c \in capabilities |-> levels[c]]

\* InputDevice::grab, given the answer of libevdev_grab.
grab(device, res) ==
    [ok |-> res,
     device |-> IF res THEN [device EXCEPT !.grabbed = TRUE] ELSE device,
     calls |-> <<LibCall("libevdev_grab", "LIBEVDEV_GRAB", res, "grab")>>]

\* InputDevice::ungrab, given the answer of libevdev_grab.
ungrab(device, res) ==
    [ok |-> res,
     device |-> IF res THEN [device EXCEPT !.grabbed = FALSE] ELSE device,
     calls |-> <<LibCall("libevdev_grab", "LIBEVDEV_GRAB", res, "ungrab")>>]

\* The loop of grab_if_desired over the state map: some key is pressed.
KeyPressed(state) == \E c \in DOMAIN state : is_key(c) /\ state[c] > 0

\* A grab_if_desired that grabs in the mode Auto whatever keys are pressed.
grab_if_desired_eager(device, res) ==
    IF device.grabbed \/ device.grab_mode = "None"
    THEN [ok |-> TRUE, device |-> device, calls |-> <<>>]
    ELSE grab(device, res)

\* InputDevice::grab_if_desired, given the answer libevdev_grab would give.
grab_if_desired(device, res) ==
    IF device.grabbed
    THEN [ok |-> TRUE, device |-> device, calls |-> <<>>]
    ELSE CASE device.grab_mode = "None" ->
                 [ok |-> TRUE, device |-> device, calls |-> <<>>]
           [] device.grab_mode = "Force" -> grab(device, res)
           [] device.grab_mode = "Auto" ->
                 IF KeyPressed(device.state)
                 THEN [ok |-> TRUE, device |-> device, calls |-> <<>>]
                 ELSE grab(device, res)

\* Drop for InputDevice: a grabbed device is ungrabbed, then the library
\* handle is freed.  The library answers a request for the grab mode the
\* handle is already in with success.
Drop(device) ==
    (IF device.grabbed THEN ungrab(device, TRUE).calls ELSE <<>>)
        \o <<LibCall("libevdev_free", "none", TRUE, "drop")>>

\* InputDevice::open, given the values the library reports and the answer
\* libevdev_grab would give; a device that fails to open is dropped.
InputDevice_open(domain, persist_mode, grab_mode, capabilities, levels, res) ==
    LET device == InputDevice(domain, persist_mode, grab_mode, capabilities,
                              get_device_state(levels, capabilities))
        g == grab_if_desired(device, res)
    IN  [ok |-> g.ok, device |-> g.device,
         calls |-> <<LibCall("libevdev_new_from_fd", "none", TRUE, "open")>>
                      \o g.calls \o (IF g.ok THEN <<>> ELSE Drop(g.device))]

\* InputDevice::read_raw on the answers of libevdev_next_event: the events
\* of status SUCCESS and SYNC are collected in order until EAGAIN; any other
\* status is an error.
RECURSIVE read_raw(_)
read_raw(responses) ==
    IF responses = <<>> THEN [ok |-> TRUE, events |-> <<>>]
    ELSE CASE Head(responses).status \in {"SUCCESS", "SYNC"} ->
                 LET rest == read_raw(Tail(responses))
                 IN  [ok |-> rest.ok,
                      events |->
                         IF rest.ok
                         THEN <<[code |-> Head(responses).code,
                                 value |-> Head(responses).value]>> \o rest.events
                         ELSE <<>>]
           [] Head(responses).status = "EAGAIN" -> [ok |-> TRUE, events |-> <<>>]
           [] OTHER -> [ok |-> FALSE, events |-> <<>>]

\* state.entry(code).or_insert(0): the value of a code in a state map.
ValueIn(state, code) == IF code \in DOMAIN state THEN state[code] ELSE 0

\* A poll loop that stamps every event with the value it carries.
RECURSIVE poll_loop_no_previous(_, _)
poll_loop_no_previous(device, raw) ==
    IF raw = <<>> THEN [device |-> device, events |-> <<>>]
    ELSE LET event == Event(ev_type(Head(raw).code), Head(raw).code,
                            Head(raw).value, Head(raw).value,
                            device.domain, "Input")
             after == [device EXCEPT
                          !.state = Insert(@, Head(raw).code, Head(raw).value)]
             rest == poll_loop_no_previous(after, Tail(raw))
         IN  [rest EXCEPT !.events = <<event>> \o @]

\* The loop of InputDevice::poll over the pairs read_raw returned: every
\* event carries the state map's prior value, which is then updated.
RECURSIVE poll_loop(_, _)
poll_loop(device, raw) ==
    IF raw = <<>> THEN [device |-> device, events |-> <<>>]
    ELSE LET event == Event(ev_type(Head(raw).code), Head(raw).code,
                            Head(raw).value,
                            ValueIn(device.state, Head(raw).code),
                            device.domain, "Input")
             after == [device EXCEPT
                          !.state = Insert(@, Head(raw).code, Head(raw).value)]
             rest == poll_loop(after, Tail(raw))
         IN  [rest EXCEPT !.events = <<event>> \o @]

\* InputDevice::poll, given the answers of libevdev_next_event and the
\* answer libevdev_grab would give: a failed read and a failed grab both
\* make the poll fail.
InputDevice_poll(device, responses, res) ==
    IF ~read_raw(responses).ok
    THEN [ok |-> FALSE, failed |-> "read", device |-> device, events |-> <<>>,
          calls |-> <<>>]
    ELSE LET looped == poll_loop(device, read_raw(responses).events)
             g == grab_if_desired(looped.device, res)
         IN  [ok |-> g.ok, failed |-> IF g.ok THEN "none" ELSE "grab",
              device |-> g.device,
              events |-> IF g.ok THEN looped.events ELSE <<>>,
              calls |-> g.calls]

\* One answer of libevdev_next_event.
Response(status, code, value) == [status |-> status, code |-> code, value |-> value]

\* What libevdev_next_event answers to the dispatch loop before EAGAIN or
\* an error: nothing, or one report in which the key changes its value.
RawReads(device) ==
    { <<>>,
      <<Response("SUCCESS", "KEY_A", 1 - ValueIn(device.state, "KEY_A")),
        Response("SUCCESS", "SYN_REPORT", 0)>> }

\* What libevdev_next_event answers to the polls of a single device before
\* EAGAIN or an error: up to two events, in normal or in sync mode.
DeviceReads ==
    LET one == {<<Response("SUCCESS", "KEY_A", 0)>>,
                <<Response("SUCCESS", "KEY_A", 1)>>,
                <<Response("SYNC", "ABS_X", 1)>>,
                <<Response("SUCCESS", "SYN_REPORT", 0)>>}
    IN  {<<>>} \cup one \cup {a \o b : a \in one, b \in one}

\* The answers of libevdev_next_event of one read_raw: the events, then
\* EAGAIN or an unknown status.
Responses(raw, ok) ==
    raw \o <<Response(IF ok THEN "EAGAIN" ELSE "ENODEV", "none", 0)>>

(***************************************************************************)
(* The kernel side of an input device, per domain: whether the device is   *)
(* grabbed through the library handle, the value of the `grabbed` field of *)
(* the device, whether the handle has been freed, the library calls of the *)
(* last handler that touched the device, the answers of the library and   *)
(* the events poll returned in the polls that succeeded, and the state map *)
(* the device was opened with (empty: every value is 0).                   *)
(***************************************************************************)
KernelFresh ==
    [grabbed |-> FALSE, flag |-> FALSE, freed |-> FALSE, calls |-> <<>>,
     read |-> <<>>, events |-> <<>>, initial |-> <<>>]

\* The effect of one library call.
Kernel_call(k, call) ==
    CASE call.fn = "libevdev_new_from_fd" -> KernelFresh
      [] call.fn = "libevdev_grab" ->
            IF call.ok
            THEN [k EXCEPT !.grabbed = (call.mode = "LIBEVDEV_GRAB"),
                           !.flag = (call.by = "grab")]
            ELSE k
      [] call.fn = "libevdev_free" -> [k EXCEPT !.freed = TRUE]

RECURSIVE Kernel_calls(_, _)
Kernel_calls(k, calls) ==
    IF calls = <<>> THEN k
    ELSE Kernel_calls(Kernel_call(k, Head(calls)), Tail(calls))

\* The kernel side after a handler that made the calls, was answered `read`
\* by libevdev_next_event and got the events `events` from the poll.
Kernel_apply(k, calls, read, events) ==
    [Kernel_calls(k, calls) EXCEPT
        !.calls = calls, !.read = @ \o read, !.events = @ \o events]

(***************************************************************************)
(* The persistence interface (specification 4.10, main.rs 160-161).        *)
(***************************************************************************)
\* HostInterfaceState::new: the helper is not started; `blueprints` are the
\* devices the helper has been asked to reopen.
HostInterfaceState_new == [state |-> "NotStarted", index |-> 0, blueprints |-> {}]

NoAction ==
    [message |-> "none", kind |-> "none", what |-> "none", broken |-> FALSE,
     action |-> "none", failed |-> "none", domain |-> "none"]

\* No update_caps or run_caps call has been made.
NoCaps ==
    [call |-> "none", domain |-> "none", had_old |-> FALSE, old |-> {},
     new |-> {}, updated |-> FALSE, input |-> <<>>, output |-> <<>>,
     stream |-> <<>>]

\* main.rs main(): the process while run() is in progress.  `stage` is the
\* statement main() is at, `result` what catch_unwind(run) returned, `cause`
\* the statement of run() that ended it, `code` the value of
\* run_and_interpret_exit_code, `terminated` whether
\* subprocess::terminate_all has run, `exit_code` the code the process has
\* exited with (-1: it has not exited).
ProcessInRun ==
    [stage |-> "run", result |-> "none", cause |-> "none", code |-> -1,
     terminated |-> FALSE, exit_code |-> -1]

\* No InputSystem::poll call has been made.
NoPoll == [results |-> <<>>, ok |-> TRUE, events |-> <<>>, calls |-> <<>>]

\* No InputSystem has been created.
NoInputSystem ==
    [epoll |-> <<>>, broken_devices |-> <<>>, ever_broken |-> FALSE,
     last |-> NoPoll]

\* The capabilities of the input devices at start-up.
InitialCaps == {"KEY_A", "SYN_REPORT"}

InitialInputCaps == [d \in Domains |-> InitialCaps]

(***************************************************************************)
(* The stream under an arbitrary caller: any interleaving of stream::run   *)
(* and stream::wakeup calls, and the clock.                                *)
(***************************************************************************)
\* The stream configurations of the model.
Streams ==
    { <<>>,
      <<PrintEntry, PrintEntry>>,
      <<DelayEntry(1)>>,
      <<DelayEntry(1), MapEntry("User", "Output", 1)>>,
      <<PrintEntry, MapEntry("User", "Output", 2), MapEntry("Input", "Yielded", 1)>>,
      <<MapEntry("Input", "User", 1), DelayEntry(1), PrintEntry, DelayEntry(0),
        MapEntry("User", "Output", 1)>> }

NoEvent == Event("none", "none", 0, 0, "none", "Input")

NoReport == [open |-> FALSE, base |-> 0, staged |-> <<>>]

\* The number of syn() calls so far: every call makes every output device
\* emit one SYN_REPORT.
NumSyn(s) == Len(Filter(s.output["out1"], is_syn))

\* The events a step appended to the staged buffer.
NewlyStaged(before, after) ==
    IF Len(after.staged_events) >= Len(before.staged_events)
    THEN SubSeq(after.staged_events, Len(before.staged_events) + 1,
                Len(after.staged_events))
    ELSE <<>>

Init ==
    /\ setup \in {Setup_create(stream, InitialInputCaps) : stream \in Streams}
    /\ now = 0
    /\ pc = "idle"
    /\ nruns = 0
    /\ popped = 0
    /\ delivered = <<>>
    /\ visits = <<>>
    /\ last_event = NoEvent
    /\ report = [d \in Domains |-> NoReport]
    /\ epoll = <<>>
    /\ persist_subsystem = HostInterfaceState_new
    /\ quiet = FALSE
    /\ messages = <<>>
    /\ loop = "none"
    /\ awaited = FALSE
    /\ last_action = NoAction
    /\ kernel = [d \in Domains |-> KernelFresh]
    /\ last_caps = NoCaps
    /\ process = ProcessInRun
    /\ input_system = NoInputSystem

\* The caller applies an event to the stream.
Run(event) ==
    /\ pc = "idle"
    /\ nruns < MaxRuns
    /\ setup' = run(setup, event, now)
    /\ nruns' = nruns + 1
    /\ last_event' = event
    /\ visits' =
          IF is_syn(event) THEN <<>>
          ELSE <<[index |-> 0, event |-> event,
                  applied |-> run_event(event, setup.staged_events, setup.stream,
                                        setup.loopback, get_handle_lazy(now), 1).applied]>>
    /\ report' =
          [report EXCEPT ![event.domain] =
              IF is_syn(event) THEN NoReport
              ELSE IF @.open
              THEN [@ EXCEPT !.staged = @ \o NewlyStaged(setup, setup')]
              ELSE [open |-> TRUE, base |-> NumSyn(setup),
                    staged |-> NewlyStaged(setup, setup')]]
    /\ UNCHANGED <<now, pc, popped, delivered>>
    /\ UNCHANGED loopvars

\* Time passes.
Tick ==
    /\ pc \in {"idle", "wakeup"}
    /\ now < MaxTime
    /\ now' = now + 1
    /\ UNCHANGED <<setup, pc, nruns, popped, delivered, visits, last_event, report>>
    /\ UNCHANGED loopvars

\* The caller enters stream::wakeup.
WakeupCall ==
    /\ pc = "idle"
    /\ pc' = "wakeup"
    /\ popped' = 0
    /\ UNCHANGED <<setup, now, nruns, delivered, visits, last_event, report>>
    /\ UNCHANGED loopvars

\* The wakeup loop pops a due token and runs its wakeup pass.
WakeupPass ==
    /\ pc = "wakeup"
    /\ poll_once(setup.loopback, now).some
    /\ setup' = wakeup(pc, setup, now).setup
    /\ pc' = wakeup(pc, setup, now).pc
    /\ popped' = popped + 1
    /\ delivered' = Append(delivered,
                           [instant |-> wakeup(pc, setup, now).polled.instant,
                            token |-> wakeup(pc, setup, now).polled.token,
                            at |-> now,
                            woken |-> wakeup(pc, setup, now).woken])
    /\ visits' = wakeup(pc, setup, now).passes
    /\ UNCHANGED <<now, nruns, last_event, report>>
    /\ UNCHANGED loopvars

\* The wakeup loop synchronizes after the pass.
WakeupSyn ==
    /\ pc = "wakeup_syn"
    /\ setup' = wakeup(pc, setup, now).setup
    /\ pc' = wakeup(pc, setup, now).pc
    /\ UNCHANGED <<now, nruns, popped, delivered, visits, last_event, report>>
    /\ UNCHANGED loopvars

\* The wakeup loop finds no due token and stream::wakeup returns.
WakeupReturn ==
    /\ pc = "wakeup"
    /\ ~poll_once(setup.loopback, now).some
    /\ setup' = wakeup(pc, setup, now).setup
    /\ pc' = wakeup(pc, setup, now).pc
    /\ UNCHANGED <<now, nruns, popped, delivered, visits, last_event, report>>
    /\ UNCHANGED loopvars

Next ==
    \/ \E event \in InputEvents : Run(event)
    \/ Tick
    \/ WakeupCall
    \/ WakeupPass
    \/ WakeupSyn
    \/ WakeupReturn

Spec == Init /\ [][Next]_vars

\* The stream under the scheduling of stream::wakeup: its loop is sequential
\* code, so once called its position advances until it returns.  Every step
\* of the loop (WakeupPass, WakeupSyn, WakeupReturn) moves pc and nothing
\* else moves it inside the loop (time may pass there), so the condition is
\* weak fairness of the steps of the loop.
WakeupStep ==
    /\ pc \in {"wakeup", "wakeup_syn"}
    /\ pc' \in {"idle", "wakeup", "wakeup_syn"}

FairSpec == Init /\ [][Next]_vars /\ WF_pc(WakeupStep)

\* The stream under a caller that also hands it EV_SYN events other than
\* SYN_REPORT.
NextSyn ==
    \/ \E event \in SynEvents : Run(event)
    \/ Tick
    \/ WakeupCall
    \/ WakeupPass
    \/ WakeupSyn
    \/ WakeupReturn

SpecSyn == Init /\ [][NextSyn]_vars

(***************************************************************************)
(* The poller (specification 4.4): the files by FileIndex; an index is     *)
(* never reused.                                                           *)
(***************************************************************************)
\* The number of files the poller can hold over a session.
MaxFiles == 5

\* Epoll::add_file: fails when the poller cannot take another file.
Epoll_add_file(files, file) ==
    IF Len(files) < MaxFiles
    THEN [ok |-> TRUE, files |-> Append(files, file), index |-> Len(files) + 1]
    ELSE [ok |-> FALSE, files |-> files, index |-> 0]

\* Epoll::get_mut / Epoll::remove find a file at the index.
Epoll_has(files, index) ==
    index \in DOMAIN files /\ files[index].kind # "Vacant"

Epoll_remove(files, index) == [files EXCEPT ![index] = Vacant]

(***************************************************************************)
(* HostInterfaceState (specification 4.10).                                *)
(***************************************************************************)
\* HostInterfaceState::require: starts the helper on first use and adds its
\* interface to the poller.
require(ps, files) ==
    IF ps.state = "NotStarted"
    THEN IF Epoll_add_file(files, HostInterface).ok
         THEN [some |-> TRUE,
               ps |-> [ps EXCEPT !.state = "Running",
                                 !.index = Epoll_add_file(files, HostInterface).index],
               files |-> Epoll_add_file(files, HostInterface).files]
         ELSE [some |-> FALSE, ps |-> [ps EXCEPT !.state = "Error"], files |-> files]
    ELSE [some |-> ps.state = "Running", ps |-> ps, files |-> files]

\* HostInterfaceState::mark_as_broken.
mark_as_broken(ps) == [ps EXCEPT !.state = "Error"]

\* HostInterfaceState::await_shutdown: a running helper is told to shut
\* down and its interface is taken out of the poller.
await_shutdown(ps, files) ==
    IF ps.state = "Running"
    THEN [ps |-> [ps EXCEPT !.state = "Shutdown"],
          files |-> Epoll_remove(files, ps.index)]
    ELSE [ps |-> ps, files |-> files]

(***************************************************************************)
(* The handlers of the dispatch loop (src/src/main.rs).                    *)
(***************************************************************************)
\* main.rs count_remaining_input_devices.
count_remaining_input_devices(files) ==
    Cardinality({i \in DOMAIN files : files[i].kind = "InputDevice"}) + 1

\* What a handler reports when it finds no file at the index.
NotRegistered(files, s, ps) ==
    [action |-> "Continue", epoll |-> files, setup |-> s, ps |-> ps,
     kind |-> "none", broken |-> FALSE, failed |-> "none", domain |-> "none",
     calls |-> <<>>, events |-> <<>>]

\* A handle_broken_file that hands the blueprint of every input device to
\* the persistence interface, whatever its persist mode.
handle_broken_file_persist_all(files, s, ps, index) ==
    IF ~Epoll_has(files, index)
    THEN NotRegistered(files, s, ps)
    ELSE LET broken_device == files[index]
             removed == Epoll_remove(files, index)
         IN  CASE broken_device.kind = "InputDevice" ->
                    LET req == require(ps, removed)
                        ps1 == IF req.some
                               THEN [req.ps EXCEPT !.blueprints =
                                        @ \cup {broken_device.domain}]
                               ELSE req.ps
                    IN  [NotRegistered(req.files, s, ps1) EXCEPT
                            !.action =
                                IF count_remaining_input_devices(req.files) = 0
                                THEN "Exit" ELSE "Continue",
                            !.kind = "InputDevice", !.broken = TRUE,
                            !.domain = broken_device.domain,
                            !.calls = Drop(broken_device)]
               [] broken_device.kind = "SignalFd" ->
                    [NotRegistered(removed, s, ps) EXCEPT
                        !.action = "Exit", !.kind = "SignalFd", !.broken = TRUE]
               [] broken_device.kind = "PersistSubsystem" ->
                    [NotRegistered(removed, s, mark_as_broken(ps)) EXCEPT
                        !.kind = "PersistSubsystem", !.broken = TRUE]

\* main.rs handle_broken_file; the removed device is dropped when the
\* function returns.
handle_broken_file(files, s, ps, index) ==
    IF ~Epoll_has(files, index)
    THEN NotRegistered(files, s, ps)
    ELSE LET broken_device == files[index]
             removed == Epoll_remove(files, index)
         IN  CASE broken_device.kind = "InputDevice" ->
                    LET req == IF broken_device.persist_mode = "Reopen"
                               THEN require(ps, removed)
                               ELSE [some |-> FALSE, ps |-> ps, files |-> removed]
                        ps1 == IF req.some
                               THEN [req.ps EXCEPT !.blueprints =
                                        @ \cup {broken_device.domain}]
                               ELSE req.ps
                    IN  [NotRegistered(req.files, s, ps1) EXCEPT
                            !.action =
                                IF count_remaining_input_devices(req.files) = 0
                                THEN "Exit" ELSE "Continue",
                            !.kind = "InputDevice", !.broken = TRUE,
                            !.domain = broken_device.domain,
                            !.calls = Drop(broken_device)]
               [] broken_device.kind = "SignalFd" ->
                    [NotRegistered(removed, s, ps) EXCEPT
                        !.action = "Exit", !.kind = "SignalFd", !.broken = TRUE]
               [] broken_device.kind = "PersistSubsystem" ->
                    [NotRegistered(removed, s, mark_as_broken(ps)) EXCEPT
                        !.kind = "PersistSubsystem", !.broken = TRUE]

\* A loop over the events of a poll that runs the newest event first.
RECURSIVE run_all_reversed(_, _, _)
run_all_reversed(s, events, t) ==
    IF events = <<>> THEN s
    ELSE run(run_all_reversed(s, Tail(events), t), Head(events), t)

\* The loop of handle_ready_file over the events of a poll: stream::run on
\* every event, in order.
RECURSIVE run_all(_, _, _)
run_all(s, events, t) ==
    IF events = <<>> THEN s
    ELSE run_all(run(s, Head(events), t), Tail(events), t)

\* The capabilities a device can have when it is opened again.
ReopenedCaps == {InitialCaps, InitialCaps \cup {"ABS_X"}}

\* The answers libevdev_grab can give to a device that may ask for a grab.
GrabAnswers(device) ==
    IF device.grabbed \/ device.grab_mode = "None" THEN {TRUE} ELSE BOOLEAN

\* What the read of a ready file yields.
Outcome(ok, raw, what, res, caps) ==
    [ok |-> ok, raw |-> raw, what |-> what, grab |-> res, caps |-> caps]

\* What the read of a ready file can yield, for the reads an input device
\* can answer: for an input device the answers of the library, for the
\* signal descriptor the signal read, for the persistence interface the
\* device received.
OutcomesOf(files, ps, index, reads) ==
    IF ~Epoll_has(files, index) THEN {Outcome(TRUE, <<>>, "none", TRUE, {})}
    ELSE CASE files[index].kind = "InputDevice" ->
                {Outcome(TRUE, raw, "events", res, {}) :
                    raw \in reads, res \in GrabAnswers(files[index])}
                \cup {Outcome(FALSE, <<>>, "error", TRUE, {})}
           [] files[index].kind = "SignalFd" ->
                {Outcome(TRUE, <<>>, w, TRUE, {}) : w \in {"SIGTERM", "SIGPIPE"}}
                \cup {Outcome(FALSE, <<>>, w, TRUE, {}) :
                         w \in {"Interrupted", "error"}}
           [] files[index].kind = "PersistSubsystem" ->
                {Outcome(TRUE, <<>>, d, TRUE, caps) :
                    d \in ps.blueprints, caps \in ReopenedCaps}
                \cup {Outcome(FALSE, <<>>, "error", TRUE, {})}

\* The outcomes of the dispatch loop: an input device answers what RawReads
\* says, as long as the model lets more events in.
Outcomes(files, ps, index, more) ==
    OutcomesOf(files, ps, index,
               IF Epoll_has(files, index)
               THEN {r \in RawReads(files[index]) : r = <<>> \/ more}
               ELSE {})

\* main.rs handle_ready_file, given what the read of the file yields.
handle_ready_file(files, s, ps, index, outcome, t) ==
    IF ~Epoll_has(files, index)
    THEN NotRegistered(files, s, ps)
    ELSE CASE files[index].kind = "InputDevice" ->
                LET polled == InputDevice_poll(files[index],
                                               Responses(outcome.raw, outcome.ok),
                                               outcome.grab)
                    polled_files == [files EXCEPT ![index] = polled.device]
                IN  IF polled.ok
                    THEN [NotRegistered(polled_files,
                                        run_all(s, polled.events, t), ps) EXCEPT
                             !.kind = "InputDevice",
                             !.domain = files[index].domain,
                             !.calls = polled.calls,
                             !.events = polled.events]
                    ELSE [handle_broken_file(polled_files, s, ps, index) EXCEPT
                             !.failed = polled.failed,
                             !.calls = polled.calls \o @]
           [] files[index].kind = "SignalFd" ->
                [NotRegistered(files, s, ps) EXCEPT
                    !.action =
                        IF outcome.ok
                        THEN (IF outcome.what = "SIGTERM" THEN "Exit" ELSE "Continue")
                        ELSE (IF outcome.what = "Interrupted" THEN "Continue" ELSE "Exit"),
                    !.kind = "SignalFd"]
           [] files[index].kind = "PersistSubsystem" ->
                IF outcome.ok
                THEN LET opened == InputDevice_open(outcome.what,
                                                    PersistModeOf(outcome.what),
                                                    "None", outcome.caps,
                                                    ZeroLevels, TRUE)
                         added == Epoll_add_file(files, opened.device)
                     IN  [NotRegistered(added.files, s,
                                        [ps EXCEPT !.blueprints = @ \ {outcome.what}])
                          EXCEPT
                             !.kind = "PersistSubsystem",
                             !.domain = outcome.what,
                             !.calls = opened.calls
                                          \o (IF added.ok THEN <<>>
                                              ELSE Drop(opened.device))]
                ELSE handle_broken_file(files, s, ps, index)

(***************************************************************************)
(* The dispatch loop of main.rs run() (lines 169-196) and its environment: *)
(* while the program is blocked in poll() the kernel wakes it with         *)
(* messages or a signal, or never wakes it again.                          *)
(***************************************************************************)
\* The stream configurations the dispatch loop is started with.
LoopStreams ==
    { <<MapEntry("Input", "Output", 1)>>,
      <<MapEntry("Input", "User", 1), DelayEntry(1),
        MapEntry("User", "Output", 1)>> }

InitLoop ==
    /\ setup \in {Setup_create(stream, InitialInputCaps) : stream \in LoopStreams}
    /\ now = 0
    /\ nruns = 0
    /\ pc = "idle"
    /\ popped = 0
    /\ delivered = <<>>
    /\ visits = <<>>
    /\ last_event = NoEvent
    /\ report = [d \in Domains |-> NoReport]
    /\ epoll = <<SignalFd,
                 InputDevice_open("d1", PersistModeOf("d1"), "None", InitialCaps,
                                  ZeroLevels, TRUE).device,
                 InputDevice_open("d2", PersistModeOf("d2"), "None", InitialCaps,
                                  ZeroLevels, TRUE).device>>
    /\ persist_subsystem = HostInterfaceState_new
    /\ quiet = FALSE
    /\ messages = <<>>
    /\ loop = "poll"
    /\ awaited = FALSE
    /\ last_action = NoAction
    /\ kernel = [d \in Domains |-> KernelFresh]
    /\ last_caps = NoCaps
    /\ process = ProcessInRun
    /\ input_system = NoInputSystem

\* The number of messages of one poll().
MaxBatch == 2

\* From now on no file becomes ready or broken and no signal arrives: the
\* blocked poll() is not woken any more.
Quiesce ==
    /\ loop = "poll"
    /\ ~quiet
    /\ quiet' = TRUE
    /\ UNCHANGED <<setup, now, nruns, streamvars, epoll, persist_subsystem,
                   messages, loop, awaited, last_action, kernel, last_caps,
                   process, input_system>>

\* Time passes while the program is blocked in poll(); the clock is read
\* by the loopback only.
TimePasses ==
    /\ loop = "poll"
    /\ setup.loopback.schedule # <<>>
    /\ now < MaxTime
    /\ now' = now + 1
    /\ UNCHANGED <<setup, nruns, streamvars, loopvars>>

\* The message batches poll() can return: Ready or Broken for registered
\* files, in the order of their indices.
Batches(files) ==
    LET one == {<<[type |-> type, index |-> i]>> :
                    type \in {"Ready", "Broken"},
                    i \in {k \in DOMAIN files : Epoll_has(files, k)}}
        RECURSIVE UpTo(_)
        UpTo(n) ==
            IF n = 1 THEN one
            ELSE UpTo(n - 1) \cup
                 {b \o m : b \in UpTo(n - 1), m \in one} 
    IN  {b \in UpTo(MaxBatch) :
            \A k \in 1 .. (Len(b) - 1) : b[k].index < b[k + 1].index}

\* main.rs 170-171: the kernel wakes poll() and it returns messages.
Poll ==
    /\ loop = "poll"
    /\ ~quiet
    /\ \E batch \in Batches(epoll) : messages' = batch
    /\ loop' = "dispatch"
    /\ UNCHANGED <<setup, now, nruns, streamvars, epoll, persist_subsystem,
                   quiet, awaited, last_action, kernel, last_caps, process, input_system>>

\* main.rs 172: a termination signal interrupts poll() and run() returns.
PollInterrupted ==
    /\ loop = "poll"
    /\ ~quiet
    /\ loop' = "returned"
    /\ last_action' = [NoAction EXCEPT !.message = "Interrupted"]
    /\ UNCHANGED <<setup, now, nruns, streamvars, epoll, persist_subsystem,
                   quiet, messages, awaited, kernel, last_caps, process, input_system>>

\* The handler of a message: main.rs 176-183.
handle_message(message, files, s, ps, outcome, t) ==
    IF message.type = "Ready"
    THEN handle_ready_file(files, s, ps, message.index, outcome, t)
    ELSE handle_broken_file(files, s, ps, message.index)

\* The position of the loop after a message with the given Action:
\* main.rs 185-190.
after_message(action, rest) ==
    IF action = "Exit" THEN "shutdown"
    ELSE IF rest = <<>> THEN "poll" ELSE "dispatch"

\* main.rs 175-189: the next message of the batch is handled, given what
\* the read of its file yields.
HandleWith(outcome) ==
    LET r == handle_message(Head(messages), epoll, setup, persist_subsystem,
                            outcome, now)
    IN  /\ epoll' = r.epoll
        /\ setup' = r.setup
        /\ persist_subsystem' = r.ps
        /\ nruns' = nruns + Len(outcome.raw)
        /\ last_action' =
              [message |-> Head(messages).type, kind |-> r.kind,
               what |-> outcome.what, broken |-> r.broken,
               action |-> r.action, failed |-> r.failed, domain |-> r.domain]
        /\ kernel' =
              IF r.domain \in Domains
              THEN [kernel EXCEPT
                       ![r.domain] =
                           Kernel_apply(@, r.calls,
                                        IF r.kind = "InputDevice" /\ ~r.broken
                                        THEN outcome.raw ELSE <<>>,
                                        r.events)]
              ELSE kernel
        /\ loop' = after_message(r.action, Tail(messages))
        /\ messages' = IF r.action = "Exit" THEN <<>> ELSE Tail(messages)
        /\ UNCHANGED <<now, streamvars, quiet, awaited, last_caps, process, input_system>>

\* main.rs 175-189: the next message of the batch is handled.
Handle ==
    /\ loop = "dispatch"
    /\ messages # <<>>
    /\ \E outcome \in Outcomes(epoll, persist_subsystem, Head(messages).index,
                               nruns < MaxRuns) :
          HandleWith(outcome)

\* main.rs 192-195: the shutdown of the persistence system is awaited and
\* run() returns.
AwaitShutdown ==
    /\ loop = "shutdown"
    /\ awaited' = TRUE
    /\ persist_subsystem' = await_shutdown(persist_subsystem, epoll).ps
    /\ epoll' = await_shutdown(persist_subsystem, epoll).files
    /\ loop' = "returned"
    /\ UNCHANGED <<setup, now, nruns, streamvars, quiet, messages, last_action,
                   kernel, last_caps, process, input_system>>

ProgramStep == Poll \/ PollInterrupted \/ Handle \/ AwaitShutdown

NextLoop ==
    \/ Quiesce
    \/ TimePasses
    \/ Poll
    \/ PollInterrupted
    \/ Handle
    \/ AwaitShutdown

SpecLoop == InitLoop /\ [][NextLoop]_vars

(***************************************************************************)
(* One input device under the dispatch loop: the device is opened in any   *)
(* grab mode, with or without a key capability, while its key is up or     *)
(* down, and the loop polls it until it breaks.  Its events pass a stream  *)
(* that stamps them Output.                                                *)
(***************************************************************************)
DeviceCaps == {{"KEY_A", "ABS_X", "SYN_REPORT"}, {"ABS_X", "SYN_REPORT"}}

DeviceLevels ==
    {[c \in Codes |-> IF c = "KEY_A" THEN k ELSE IF c = "ABS_X" THEN a ELSE 0] :
        k \in {0, 1}, a \in {0, 1}}

DeviceStream == <<MapEntry("Input", "Output", 1)>>

InitDevice ==
    /\ \E grab_mode \in GrabMode, capabilities \in DeviceCaps,
          levels \in DeviceLevels, res \in BOOLEAN :
          LET opened == InputDevice_open("d2", PersistModeOf("d2"), grab_mode,
                                         capabilities, levels, res)
          IN  /\ epoll = IF opened.ok THEN <<opened.device>> ELSE <<>>
              /\ loop = IF opened.ok THEN "poll" ELSE "returned"
              /\ kernel =
                    [d \in Domains |->
                        IF d = "d2"
                        THEN [Kernel_apply(KernelFresh, opened.calls, <<>>, <<>>)
                              EXCEPT !.initial = get_device_state(levels, capabilities)]
                        ELSE KernelFresh]
              /\ last_action =
                    [NoAction EXCEPT
                        !.message = "open", !.kind = "InputDevice",
                        !.failed = IF opened.ok THEN "none" ELSE "grab",
                        !.domain = "d2"]
              /\ setup = Setup_create(DeviceStream, [d \in {"d2"} |-> capabilities])
    /\ now = 0
    /\ nruns = 0
    /\ pc = "idle"
    /\ popped = 0
    /\ delivered = <<>>
    /\ visits = <<>>
    /\ last_event = NoEvent
    /\ report = [d \in Domains |-> NoReport]
    /\ persist_subsystem = HostInterfaceState_new
    /\ quiet = FALSE
    /\ messages = <<>>
    /\ awaited = FALSE
    /\ last_caps = NoCaps
    /\ process = ProcessInRun
    /\ input_system = NoInputSystem

\* main.rs 175-189: the next message of the batch is handled, for the
\* reads of a single device.
HandleDevice ==
    /\ loop = "dispatch"
    /\ messages # <<>>
    /\ \E outcome \in OutcomesOf(epoll, persist_subsystem, Head(messages).index,
                                 {r \in DeviceReads : r = <<>> \/ nruns < MaxRuns}) :
          HandleWith(outcome)

NextDevice ==
    \/ Poll
    \/ HandleDevice

SpecDevice == InitDevice /\ [][NextDevice]_vars

(***************************************************************************)
(* The capability pass: a Setup whose stream is driven by run and wakeup   *)
(* calls while devices are opened again (Setup::update_caps) and while     *)
(* run_caps is applied to capability vectors.                              *)
(***************************************************************************)
CapsStreams ==
    { <<MapValueEntry("Input", "Output", 1), MapEntry("Input", "Output", 1)>>,
      <<MapValueEntry("Input", "User", 1), DelayEntry(0), PrintEntry,
        MapEntry("User", "Output", 2)>> }

\* The capabilities the input devices start with: those of the first
\* device only, or those of both devices.
CapsInputCaps == {[d \in {"d1"} |-> InitialCaps], InitialInputCaps}

\* The devices update_caps is called with: the second device, with the
\* capabilities the devices start with, a subset of them or a superset of
\* them.
CapsDevices ==
    {InputDevice_open("d2", PersistModeOf("d2"), "None", capabilities,
                      ZeroLevels, TRUE).device :
        capabilities \in {InitialCaps, {"KEY_A"}, InitialCaps \cup {"ABS_X"}}}

\* The capability vectors run_caps is applied to.
CapVectors ==
    { <<>>,
      <<Capability("KEY_A", "d1", "Input", ValueRange)>>,
      <<Capability("KEY_A", "d1", "Output", [min |-> 0, max |-> 0]),
        Capability("KEY_A", "d1", "Output", [min |-> 1, max |-> 1])>>,
      <<Capability("KEY_A", "d1", "Input", ValueRange),
        Capability("ABS_X", "d1", "User", ValueRange),
        Capability("KEY_A", "d2", "Yielded", ValueRange)>> }

\* A value range wide enough to be split more than once.
WideRange == [min |-> 0, max |-> 3]

\* The streams run_caps is applied to as configured: Maps that each split
\* the value range of every Input capability, entries whose arm of run_caps
\* is `()`, and streams of both.
ConfiguredStreams ==
    { <<MapRangeEntry("Input", 0, 1), MapRangeEntry("Input", 0, 0),
        MapRangeEntry("Input", 3, 3)>>,
      <<MergeEntry, PrintEntry, DelayEntry(1), WithholdEntry>>,
      <<MapRangeEntry("Input", 0, 1), MergeEntry, MapRangeEntry("Input", 0, 0),
        DelayEntry(0), MapEntry("Input", "Output", 1), WithholdEntry,
        PrintEntry>> }

\* The capability vectors run_caps is applied to with those streams.
WideVectors ==
    { <<>>,
      <<Capability("ABS_X", "d1", "Input", WideRange)>>,
      <<Capability("ABS_X", "d1", "Input", WideRange),
        Capability("ABS_X", "d2", "Input", WideRange)>>,
      <<Capability("ABS_X", "d1", "Input", WideRange),
        Capability("KEY_A", "d1", "User", ValueRange)>>,
      <<Capability("KEY_A", "d1", "Output", [min |-> 0, max |-> 0]),
        Capability("KEY_A", "d1", "Output", [min |-> 1, max |-> 1]),
        Capability("ABS_X", "d1", "Input", WideRange),
        Capability("KEY_A", "d2", "User", ValueRange)>> }

\* The events the stream is run on.
CapsEvents == {KeyEvent("d1", "Input"), SynReport("d1")}

InitCaps ==
    /\ setup \in {Setup_create(stream, input_caps) :
                     stream \in CapsStreams, input_caps \in CapsInputCaps}
    /\ now = 0
    /\ pc = "idle"
    /\ nruns = 0
    /\ popped = 0
    /\ delivered = <<>>
    /\ visits = <<>>
    /\ last_event = NoEvent
    /\ report = [d \in Domains |-> NoReport]
    /\ epoll = <<>>
    /\ persist_subsystem = HostInterfaceState_new
    /\ quiet = FALSE
    /\ messages = <<>>
    /\ loop = "none"
    /\ awaited = FALSE
    /\ last_action = NoAction
    /\ kernel = [d \in Domains |-> KernelFresh]
    /\ last_caps = NoCaps
    /\ process = ProcessInRun
    /\ input_system = NoInputSystem

\* Setup::update_caps is called with a device.
UpdateCaps(new_device) ==
    /\ pc = "idle"
    /\ setup' = update_caps(setup, new_device).setup
    /\ last_caps' =
          [call |-> "update_caps",
           domain |-> new_device.domain,
           had_old |-> new_device.domain \in DOMAIN setup.input_caps,
           old |-> IF new_device.domain \in DOMAIN setup.input_caps
                   THEN setup.input_caps[new_device.domain] ELSE {},
           new |-> new_device.capabilities,
           updated |-> update_caps(setup, new_device).updated,
           input |-> <<>>,
           output |-> <<>>,
           stream |-> <<>>]
    /\ UNCHANGED <<now, nruns, streamvars, epoll, persist_subsystem, quiet,
                   messages, loop, awaited, last_action, kernel, process, input_system>>

\* run_caps is applied to a capability vector.
RunCaps(capabilities) ==
    /\ pc = "idle"
    /\ last_caps' =
          [NoCaps EXCEPT !.call = "run_caps",
                         !.input = capabilities,
                         !.output = run_caps(setup.stream, capabilities)]
    /\ UNCHANGED <<setup, now, nruns, streamvars, epoll, persist_subsystem,
                   quiet, messages, loop, awaited, last_action, kernel,
                   process, input_system>>

\* run_caps is applied to a stream as configured and a capability vector.
RunCapsOn(stream, capabilities) ==
    /\ pc = "idle"
    /\ last_caps' =
          [NoCaps EXCEPT !.call = "run_caps_on",
                         !.stream = stream,
                         !.input = capabilities,
                         !.output = run_caps(stream, capabilities)]
    /\ UNCHANGED <<setup, now, nruns, streamvars, epoll, persist_subsystem,
                   quiet, messages, loop, awaited, last_action, kernel,
                   process, input_system>>

NextCaps ==
    \/ \E event \in CapsEvents : Run(event)
    \/ WakeupCall
    \/ WakeupPass
    \/ WakeupSyn
    \/ WakeupReturn
    \/ \E new_device \in CapsDevices : UpdateCaps(new_device)
    \/ \E capabilities \in CapVectors : RunCaps(capabilities)
    \/ \E stream \in ConfiguredStreams, capabilities \in WideVectors :
          RunCapsOn(stream, capabilities)

SpecCaps == InitCaps /\ [][NextCaps]_vars

\* The dispatch loop under the scheduling the program has: it is single
\* threaded and takes its next step whenever it can, and time passes; the
\* kernel is free never to wake the blocked poll() again.
FairLoop ==
    /\ InitLoop
    /\ [][NextLoop]_vars
    /\ WF_vars(ProgramStep)
    /\ WF_vars(TimePasses)

(***************************************************************************)
(* The process: main() of main.rs (lines 84-88), from the start of run()   *)
(* to the exit of the process.  The poller may report any index it has     *)
(* ever given out, also one whose file is gone.                            *)
(***************************************************************************)
\* main.rs run_and_interpret_exit_code (90-106): the exit code for what
\* catch_unwind(run) returned.
run_and_interpret_exit_code(result) ==
    CASE result = "Ok" -> 0
      [] result = "Err" -> 1
      [] result = "Panic" -> 1

\* How the part of run() before the loop (main.rs 132-166) can end: with
\* --help or --version, with the error of one of its `?`, or not at all.
StartOutcomes ==
    {"help", "Epoll::new", "add_file", "SignalBlock::new", "implement", "ok"}

\* What run() returns when its first part ends with the outcome.
run_start(outcome) == IF outcome = "help" THEN "Ok" ELSE "Err"

\* run() has ended with the result, because of the cause.
Returned(p, result, cause) ==
    [p EXCEPT !.stage = "returned", !.result = result, !.cause = cause,
              !.code = run_and_interpret_exit_code(result)]

MainStream == <<MapEntry("Input", "Output", 1)>>

InitMain ==
    /\ setup = Setup_create(MainStream, InitialInputCaps)
    /\ now = 0
    /\ nruns = 0
    /\ pc = "idle"
    /\ popped = 0
    /\ delivered = <<>>
    /\ visits = <<>>
    /\ last_event = NoEvent
    /\ report = [d \in Domains |-> NoReport]
    /\ epoll = <<>>
    /\ persist_subsystem = HostInterfaceState_new
    /\ quiet = FALSE
    /\ messages = <<>>
    /\ loop = "none"
    /\ awaited = FALSE
    /\ last_action = NoAction
    /\ kernel = [d \in Domains |-> KernelFresh]
    /\ last_caps = NoCaps
    /\ process = [ProcessInRun EXCEPT !.stage = "start"]
    /\ input_system = NoInputSystem

\* main.rs 132-166: run() up to the loop.
Start(outcome) ==
    /\ process.stage = "start"
    /\ IF outcome = "ok"
       THEN /\ process' = [process EXCEPT !.stage = "run"]
            /\ epoll' = <<SignalFd,
                          InputDevice_open("d1", PersistModeOf("d1"), "None",
                                           InitialCaps, ZeroLevels, TRUE).device,
                          InputDevice_open("d2", PersistModeOf("d2"), "None",
                                           InitialCaps, ZeroLevels, TRUE).device>>
            /\ loop' = "poll"
       ELSE /\ process' = Returned(process, run_start(outcome), outcome)
            /\ UNCHANGED <<epoll, loop>>
    /\ UNCHANGED <<setup, now, nruns, streamvars, persist_subsystem, quiet,
                   messages, awaited, last_action, kernel, last_caps,
                   input_system>>

\* The message batches of a poller that may report an index twice in one
\* batch, or an index whose file has been removed.
StaleBatches(files) ==
    LET one == {<<[type |-> type, index |-> i]>> :
                    type \in {"Ready", "Broken"}, i \in DOMAIN files}
        RECURSIVE UpTo(_)
        UpTo(n) ==
            IF n = 1 THEN one
            ELSE UpTo(n - 1) \cup
                 {b \o m : b \in UpTo(n - 1), m \in one}
    IN  {b \in UpTo(MaxBatch) :
            \A k \in 1 .. (Len(b) - 1) : b[k].index <= b[k + 1].index}

\* main.rs 170-171: poll() returns messages.
PollStale ==
    /\ loop = "poll"
    /\ \E batch \in StaleBatches(epoll) : messages' = batch
    /\ loop' = "dispatch"
    /\ UNCHANGED <<setup, now, nruns, streamvars, epoll, persist_subsystem,
                   quiet, awaited, last_action, kernel, last_caps, process,
                   input_system>>

\* main.rs 175-189: the next message of the batch is handled; the input
\* devices have no events to read.
HandleMain ==
    /\ loop = "dispatch"
    /\ messages # <<>>
    /\ \E outcome \in OutcomesOf(epoll, persist_subsystem, Head(messages).index,
                                 {<<>>}) :
          HandleWith(outcome)

\* A panic unwinds run() while a message is handled (main.rs 91, 101).
Panic ==
    /\ process.stage = "run"
    /\ loop = "dispatch"
    /\ process' = Returned(process, "Panic", "panic")
    /\ loop' = "panicked"
    /\ UNCHANGED <<setup, now, nruns, streamvars, epoll, persist_subsystem,
                   quiet, messages, awaited, last_action, kernel, last_caps,
                   input_system>>

\* main.rs 195, 91-94: run() returns Ok(()) after its loop.
Return ==
    /\ process.stage = "run"
    /\ loop = "returned"
    /\ process' = Returned(process, "Ok", "loop")
    /\ UNCHANGED <<setup, now, nruns, streamvars, loopvars_but_process>>

\* main.rs 86: subprocess::terminate_all().
TerminateAll ==
    /\ process.stage = "returned"
    /\ process' = [process EXCEPT !.stage = "terminated", !.terminated = TRUE]
    /\ UNCHANGED <<setup, now, nruns, streamvars, loopvars_but_process>>

\* main.rs 87: std::process::exit(result).
Exit ==
    /\ process.stage = "terminated"
    /\ process' = [process EXCEPT !.stage = "exited", !.exit_code = process.code]
    /\ UNCHANGED <<setup, now, nruns, streamvars, loopvars_but_process>>

NextMain ==
    \/ \E outcome \in StartOutcomes : Start(outcome)
    \/ PollStale
    \/ PollInterrupted
    \/ HandleMain
    \/ AwaitShutdown
    \/ Panic
    \/ Return
    \/ TerminateAll
    \/ Exit

SpecMain == InitMain /\ [][NextMain]_vars

(***************************************************************************)
(* InputSystem (src/src/io/input.rs 23-129): a poller of input devices     *)
(* that keeps the blueprints of its broken devices and reopens them when   *)
(* its inotify source is ready.  Its poller returns EpollResults and has   *)
(* already removed a device it reports as BrokenInputDevice.               *)
(***************************************************************************)
Inotify == OtherFile("Inotify")

\* Epoll::has_inotify.
has_inotify(files) == \E i \in DOMAIN files : files[i].kind = "Inotify"

\* Epoll::has_files.
has_files(files) == \E i \in DOMAIN files : files[i].kind # "Vacant"

\* Epoll::add_file, given whether the kernel accepts the file.
InputEpoll_add_file(files, file, accepted) ==
    IF accepted THEN Epoll_add_file(files, file)
    ELSE [ok |-> FALSE, files |-> files, index |-> 0]

\* InputDevice::into_blueprint: what is needed to open the device again.
into_blueprint(device) ==
    [domain |-> device.domain, persist_mode |-> device.persist_mode,
     grab_mode |-> device.grab_mode, capabilities |-> device.capabilities]

\* InputDeviceBlueprint::try_open, given whether the device can be opened:
\* the device, or the blueprint back.
try_open(blueprint, openable) ==
    [ok |-> openable,
     device |-> InputDevice_open(blueprint.domain, blueprint.persist_mode,
                                 blueprint.grab_mode, blueprint.capabilities,
                                 ZeroLevels, TRUE).device,
     blueprint |-> blueprint]

\* What the environment answers during one InputSystem::poll: `inotify`
\* is how Inotify::for_input_dirs and the add_file of the inotify end,
\* `openable` the domains whose device can be opened, `accepted` whether
\* the poller takes a reopened device, `exit` is sysexit::should_exit().
InotifyAnswers == {"ok", "create_fails", "add_fails"}

Answers ==
    [inotify : InotifyAnswers, openable : SUBSET Domains, accepted : BOOLEAN,
     exit : BOOLEAN]

\* The fields of an InputSystem, without the history.
Core(sys) == [epoll |-> sys.epoll, broken_devices |-> sys.broken_devices]

\* A request_inotify that does not look for an inotify in the poller.
request_inotify_unchecked(sys, answer) ==
    LET added == InputEpoll_add_file(sys.epoll, Inotify, answer = "ok")
    IN  IF answer # "create_fails" /\ added.ok
        THEN [sys |-> [sys EXCEPT !.epoll = added.files], warned |-> FALSE]
        ELSE [sys |-> sys, warned |-> TRUE]

\* InputSystem::request_inotify; `warned`: the error message is printed.
request_inotify(sys, answer) ==
    IF has_inotify(sys.epoll)
    THEN [sys |-> sys, warned |-> FALSE]
    ELSE LET added == InputEpoll_add_file(sys.epoll, Inotify, answer = "ok")
         IN  IF answer # "create_fails" /\ added.ok
             THEN [sys |-> [sys EXCEPT !.epoll = added.files], warned |-> FALSE]
             ELSE [sys |-> sys, warned |-> TRUE]

\* The loop of try_reopen_broken_devices over the drained blueprints.
RECURSIVE reopen_from(_, _, _, _)
reopen_from(blueprints, files, still_broken_devices, answers) ==
    IF blueprints = <<>>
    THEN [epoll |-> files, broken_devices |-> still_broken_devices]
    ELSE LET opened == try_open(Head(blueprints),
                                Head(blueprints).domain \in answers.openable)
             added == InputEpoll_add_file(files, opened.device, answers.accepted)
         IN  IF opened.ok
             THEN reopen_from(Tail(blueprints), added.files,
                              still_broken_devices, answers)
             ELSE reopen_from(Tail(blueprints), files,
                              Append(still_broken_devices, opened.blueprint),
                              answers)

\* InputSystem::try_reopen_broken_devices.
try_reopen_broken_devices(sys, answers) ==
    LET r == reopen_from(sys.broken_devices, sys.epoll, <<>>, answers)
    IN  [sys EXCEPT !.epoll = r.epoll, !.broken_devices = r.broken_devices]

\* The record of a call made by InputSystem::poll.
Call(fn, before, after, warned, domain) ==
    [fn |-> fn, before |-> Core(before), after |-> Core(after),
     warned |-> warned, domain |-> domain]

\* The loop of InputSystem::poll over the results of the poller; `acc`
\* holds the system, the events pushed, the calls made and whether the
\* function is still running (it returns Err on an Interrupt that ends it).
RECURSIVE poll_results(_, _, _)
poll_results(results, acc, answers) ==
    IF results = <<>> \/ ~acc.ok THEN acc
    ELSE LET result == Head(results)
             sys == acc.sys
         IN  CASE result.kind = "Event" ->
                    poll_results(Tail(results),
                                 [acc EXCEPT !.events = Append(@, result.event)],
                                 answers)
               [] result.kind = "Interrupt" ->
                    poll_results(Tail(results),
                                 [acc EXCEPT !.ok = ~(answers.exit
                                                      \/ ~has_files(sys.epoll))],
                                 answers)
               [] result.kind = "Inotify" ->
                    LET after == try_reopen_broken_devices(sys, answers)
                    IN  poll_results(Tail(results),
                                     [acc EXCEPT
                                        !.sys = after,
                                        !.calls = Append(@,
                                            Call("try_reopen_broken_devices",
                                                 sys, after, FALSE, "none"))],
                                     answers)
               [] result.kind = "BrokenInputDevice" ->
                    LET pushed == [sys EXCEPT
                                     !.broken_devices =
                                         Append(@, into_blueprint(result.device)),
                                     !.ever_broken = TRUE]
                        requested == request_inotify(pushed, answers.inotify)
                    IN  poll_results(Tail(results),
                                     [acc EXCEPT
                                        !.sys = requested.sys,
                                        !.calls = @ \o
                                           <<Call("push", sys, pushed, FALSE,
                                                  result.device.domain),
                                             Call("request_inotify", pushed,
                                                  requested.sys, requested.warned,
                                                  result.device.domain)>>],
                                     answers)

\* InputSystem::poll on the results of self.epoll.poll().
InputSystem_poll(sys, results, answers) ==
    LET r == poll_results(results,
                          [sys |-> sys, events |-> <<>>, calls |-> <<>>,
                           ok |-> TRUE],
                          answers)
    IN  [r.sys EXCEPT !.last = [results |-> results, ok |-> r.ok,
                                events |-> IF r.ok THEN r.events ELSE <<>>,
                                calls |-> r.calls]]

\* The results one Epoll::poll can return for the files: an event of a
\* device, an interrupt, the readiness of the inotify, a broken device;
\* in the order of the indices, an interrupt first.
EpollResults(files) ==
    LET of(i) ==
            CASE files[i].kind = "InputDevice" ->
                    {[kind |-> "Event", index |-> i, device |-> files[i],
                      event |-> KeyEvent(files[i].domain, "Input")],
                     [kind |-> "BrokenInputDevice", index |-> i,
                      device |-> files[i],
                      event |-> NoEvent]}
              [] files[i].kind = "Inotify" ->
                    {[kind |-> "Inotify", index |-> i, device |-> files[i],
                      event |-> NoEvent]}
              [] OTHER -> {}
        one == {<<r>> : r \in UNION {of(i) : i \in DOMAIN files}}
                 \cup {<<[kind |-> "Interrupt", index |-> 0, device |-> Vacant,
                          event |-> NoEvent]>>}
        RECURSIVE UpTo(_)
        UpTo(n) ==
            IF n = 1 THEN one
            ELSE UpTo(n - 1) \cup {b \o m : b \in UpTo(n - 1), m \in one}
    IN  {b \in UpTo(MaxBatch) :
            \A k \in 1 .. (Len(b) - 1) : b[k].index < b[k + 1].index}

\* The poller after Epoll::poll: the devices it reports broken are removed.
RECURSIVE WithoutBroken(_, _)
WithoutBroken(files, results) ==
    IF results = <<>> THEN files
    ELSE WithoutBroken(IF Head(results).kind = "BrokenInputDevice"
                       THEN Epoll_remove(files, Head(results).index)
                       ELSE files,
                       Tail(results))

\* InputSystem::from_pre_input_devices for two devices.
InputSystem_new ==
    [NoInputSystem EXCEPT
        !.epoll = <<InputDevice_open("d1", "Reopen", "None", InitialCaps,
                                     ZeroLevels, TRUE).device,
                    InputDevice_open("d2", "Reopen", "None", InitialCaps,
                                     ZeroLevels, TRUE).device>>]

InitInput ==
    /\ setup = Setup_create(MainStream, InitialInputCaps)
    /\ now = 0
    /\ nruns = 0
    /\ pc = "idle"
    /\ popped = 0
    /\ delivered = <<>>
    /\ visits = <<>>
    /\ last_event = NoEvent
    /\ report = [d \in Domains |-> NoReport]
    /\ epoll = <<>>
    /\ persist_subsystem = HostInterfaceState_new
    /\ quiet = FALSE
    /\ messages = <<>>
    /\ loop = "none"
    /\ awaited = FALSE
    /\ last_action = NoAction
    /\ kernel = [d \in Domains |-> KernelFresh]
    /\ last_caps = NoCaps
    /\ process = ProcessInRun
    /\ input_system = InputSystem_new

\* One call of InputSystem::poll.
InputPoll ==
    /\ input_system.last.ok
    /\ \E results \in EpollResults(input_system.epoll), answers \in Answers :
          input_system' =
              InputSystem_poll(
                  [input_system EXCEPT !.epoll = WithoutBroken(@, results)],
                  results, answers)
    /\ UNCHANGED <<setup, now, nruns, streamvars, epoll, persist_subsystem,
                   quiet, messages, loop, awaited, last_action, kernel,
                   last_caps, process>>

NextInput == InputPoll

SpecInput == InitInput /\ [][NextInput]_vars

(***************************************************************************)
(* Properties of the stream runner.                                        *)
(***************************************************************************)
RECURSIVE IsSubseq(_, _)
\* a is a subsequence of b.
IsSubseq(a, b) ==
    IF a = <<>> THEN TRUE
    ELSE IF b = <<>> THEN FALSE
    ELSE IF Head(a) = Head(b) THEN IsSubseq(Tail(a), Tail(b))
    ELSE IsSubseq(a, Tail(b))

\* What a step appended to the log of the output device o.
AppendedTo(o) ==
    SubSeq(setup'.output[o], Len(setup.output[o]) + 1, Len(setup'.output[o]))

\* The report in progress of device d has staged events and no syn() has
\* run since its first event.
Intact(d) ==
    /\ report[d].open
    /\ report[d].base = NumSyn(setup)

\* This step is stream::run of the SYN_REPORT of device d.
RunsSynOf(d) ==
    /\ nruns' = nruns + 1
    /\ last_event' = SynReport(d)

\* C1 (as stated): under every interleaving of run and wakeup calls, no
\* syn() routes the staged events of a report in progress other than the
\* syn() of that report's own SYN_REPORT.
Cx_C1 ==
    [][ NumSyn(setup') # NumSyn(setup) =>
            \A d \in Domains :
                (Intact(d) /\ report[d].staged # <<>>) => RunsSynOf(d) ]_vars

\* C1 (amended): syn() runs only for a SYN_REPORT handed to run or at the
\* end of a wakeup pass, and when the SYN_REPORT of a device is run while
\* no syn() has run since the first event of its report, that one syn()
\* routes every event the report staged, in order, and one SYN_REPORT
\* after them.
Thm_C1 ==
    [][ /\ NumSyn(setup') # NumSyn(setup) =>
              \/ nruns' = nruns + 1 /\ is_syn(last_event')
              \/ pc = "wakeup_syn"
        /\ \A d \in Domains :
              (RunsSynOf(d) /\ Intact(d)) =>
                  /\ NumSyn(setup') = NumSyn(setup) + 1
                  /\ \A o \in OutputDevices :
                        IsSubseq(RoutedTo(report[d].staged, o) \o <<OutputSyn>>,
                                 AppendedTo(o)) ]_vars

\* A report of two staged events has been routed by the single syn() of
\* its SYN_REPORT.
Witness_C1 ==
    /\ last_event = SynReport("d1")
    /\ NumSyn(setup) = 1
    /\ setup.output["out1"] =
          <<KeyEvent("d1", "Output"), KeyEvent("d1", "Output"), OutputSyn>>
    /\ setup.staged_events = <<>>

\* C2: every event of the staged buffer has the namespace Output.
Thm_C2 ==
    \A i \in DOMAIN setup.staged_events :
        setup.staged_events[i].namespace = "Output"

\* Events are staged while the last event run ended in another namespace
\* and was dropped by the filter of run_event.
Witness_C2 ==
    /\ setup.staged_events # <<>>
    /\ setup.stream # <<>>
    /\ last_event.namespace \in {"Input", "Yielded"}
    /\ nruns >= 2
    /\ NumSyn(setup) = 0

\* C3: a syn() call appends to every output device the staged events routed
\* to it, in order, then exactly one SYN_REPORT, and leaves the staged
\* buffer empty; every staged event is routed to exactly one device.
Thm_C3 ==
    [][ NumSyn(setup') # NumSyn(setup) =>
            /\ setup'.staged_events = <<>>
            /\ \A o \in OutputDevices :
                  setup'.output[o] =
                      setup.output[o] \o RoutedTo(setup.staged_events, o)
                                      \o <<OutputSyn>>
            /\ Len(RoutedTo(setup.staged_events, "out1"))
                  + Len(RoutedTo(setup.staged_events, "out2"))
                  = Len(setup.staged_events) ]_vars

\* A syn() has routed events to both output devices.
Witness_C3 ==
    /\ setup.staged_events = <<>>
    /\ NumSyn(setup) = 1
    /\ setup.output["out1"] = <<KeyEvent("d1", "Output"), OutputSyn>>
    /\ setup.output["out2"] = <<KeyEvent("d2", "Output"), OutputSyn>>

\* The indices of the entries a pass applied, in the order of application.
AppliedIndices(pass) == [k \in DOMAIN pass.applied |-> pass.applied[k].index]

\* C4: an event emitted by the wakeup of the entry at index i is applied to
\* the entries i+1 .. n in that order and to no other entry.
Thm_C4 ==
    \A k \in DOMAIN visits :
        AppliedIndices(visits[k]) =
            [j \in 1 .. (Len(setup.stream) - visits[k].index) |->
                visits[k].index + j]

\* A wakeup pass in which the entry at index 2 of a stream of five entries
\* emitted an event, which was applied to the entries 3, 4 and 5.
Witness_C4 ==
    /\ pc = "wakeup_syn"
    /\ \E k \in DOMAIN visits :
          /\ visits[k].index = 2
          /\ AppliedIndices(visits[k]) = <<3, 4, 5>>

\* A wakeup pass in which the last entry of a stream emitted an event,
\* which was applied to no entry.
LastEntryEmits ==
    /\ pc = "wakeup_syn"
    /\ \E k \in DOMAIN visits :
          /\ visits[k].index = Len(setup.stream)
          /\ visits[k].applied = <<>>

\* C5: every token the wakeup loop pops is followed by exactly one syn(),
\* after its pass and before the next token is popped, and when wakeup()
\* returns after popping a token the staged buffer is empty.
Thm_C5 ==
    [][ /\ delivered' # delivered =>
              /\ pc = "wakeup"
              /\ pc' = "wakeup_syn"
              /\ NumSyn(setup') = NumSyn(setup)
        /\ pc = "wakeup_syn" =>
              /\ pc' = "wakeup"
              /\ delivered' = delivered
              /\ NumSyn(setup') = NumSyn(setup) + 1
              /\ setup'.staged_events = <<>>
        /\ (pc = "wakeup" /\ pc' = "idle") =>
              /\ setup' = setup
              /\ popped > 0 => setup'.staged_events = <<>> ]_vars

\* wakeup() has returned after two tokens, each followed by its own syn().
Witness_C5 ==
    /\ pc = "idle"
    /\ popped = 2
    /\ NumSyn(setup) = 2
    /\ setup.staged_events = <<>>
    /\ \E o \in OutputDevices : Len(setup.output[o]) > 2

\* C8: tokens are delivered in non-decreasing order of instant, tokens of
\* the same instant in the order they were scheduled, and none before its
\* instant.
Thm_C8 ==
    /\ \A i \in DOMAIN delivered : delivered[i].instant <= delivered[i].at
    /\ \A i, j \in DOMAIN delivered :
          i < j =>
              \/ delivered[i].instant < delivered[j].instant
              \/ /\ delivered[i].instant = delivered[j].instant
                 /\ delivered[i].token < delivered[j].token

\* Four tokens of one instant have been delivered, two of them scheduled
\* by run and two scheduled during the wakeup passes of the first two.
Witness_C8 ==
    /\ Len(delivered) = 4
    /\ \A i \in DOMAIN delivered : delivered[i].instant = delivered[1].instant
    /\ Len(setup.stream) = 5

(***************************************************************************)
(* Properties of the dispatch loop.                                        *)
(***************************************************************************)
\* The number of input devices registered in the poller.
NumInputDevices(files) ==
    Cardinality({i \in DOMAIN files : files[i].kind = "InputDevice"})

\* C6: when the loop has handled the last message of a batch and goes back
\* to poll(), stream::wakeup has delivered every loopback token whose
\* instant has passed.
Cx_C6 ==
    [][ (loop = "dispatch" /\ loop' = "poll") =>
            DuePositions(setup'.loopback, now') = {} ]_vars

\* C7: a scheduled loopback token is eventually delivered to the stream,
\* unless the program ends first, also when poll() is never woken again.
Cx_C7 ==
    (setup.loopback.schedule # <<>>) ~>
        (setup.loopback.schedule = <<>> \/ loop \in {"shutdown", "returned"})

\* C9: after an input device has been handled as broken, the Action is Exit
\* exactly when no input device remains in the poller, and then the loop
\* has left its iteration.
Cx_C9 ==
    (last_action.kind = "InputDevice" /\ last_action.broken) =>
        /\ last_action.action = "Exit" <=> NumInputDevices(epoll) = 0
        /\ NumInputDevices(epoll) = 0 => loop \in {"shutdown", "returned"}

\* C10: when run() has returned because of a termination signal, seen as
\* an interrupted poll() or read from the signal descriptor, the shutdown
\* of the persistence helper has been awaited.
Cx_C10 ==
    ( /\ loop = "returned"
      /\ \/ last_action.message = "Interrupted"
         \/ /\ last_action.kind = "SignalFd"
            /\ last_action.what = "SIGTERM" )
        => awaited

(***************************************************************************)
(* Properties of the input devices.                                        *)
(***************************************************************************)
\* The input devices registered in the poller.
InputDevicesOf(files) == {i \in DOMAIN files : files[i].kind = "InputDevice"}

\* C11: when the grab at the end of a poll fails, the device is not handled
\* as broken: it stays registered in the poller and the events read in that
\* poll are delivered to the stream.
Cx_C11 ==
    (last_action.message = "Ready" /\ last_action.failed = "grab") =>
        /\ ~last_action.broken
        /\ InputDevicesOf(epoll) # {}

\* The library calls of the last handler of domain d that InputDevice::grab made.
GrabCalls(k) == SelectSeq(k.calls, LAMBDA call : call.by = "grab")

\* C12: a device in the mode Auto that open has grabbed has no key pressed
\* in its state map; a poll takes a device in the mode Auto from not grabbed
\* to grabbed only with a state map without a pressed key; a device in the
\* mode None is never grabbed; and a handler asks for no grab for a device
\* that is grabbed already.
Thm_C12 ==
    /\ \A i \in InputDevicesOf(epoll) :
          (epoll[i].grab_mode = "Auto" /\ epoll[i].grabbed) =>
              ~KeyPressed(epoll[i].state)
    /\ [](\A i \in InputDevicesOf(epoll) :
              epoll[i].grab_mode = "None" => ~epoll[i].grabbed)
    /\ [][ \A i \in InputDevicesOf(epoll) :
              /\ (/\ i \in InputDevicesOf(epoll')
                  /\ epoll[i].grab_mode = "Auto"
                  /\ ~epoll[i].grabbed
                  /\ epoll'[i].grabbed) => ~KeyPressed(epoll'[i].state)
              /\ (/\ loop = "dispatch"
                  /\ Head(messages).index = i
                  /\ epoll[i].grabbed) =>
                     GrabCalls(kernel'[epoll[i].domain]) = <<>> ]_vars

\* A device in the mode Auto that was opened while its key was down and its
\* axis away from 0 has been grabbed by a poll, after the key went up.
Witness_C12 ==
    /\ epoll # <<>>
    /\ epoll[1].kind = "InputDevice"
    /\ epoll[1].grab_mode = "Auto"
    /\ epoll[1].grabbed
    /\ "KEY_A" \in DOMAIN kernel["d2"].initial
    /\ kernel["d2"].initial["KEY_A"] = 1
    /\ kernel["d2"].initial["ABS_X"] = 1
    /\ GrabCalls(kernel["d2"]) # <<>>

\* The positions before i of the events of the code of the i-th event.
EarlierOf(events, i) == {j \in 1 .. (i - 1) : events[j].code = events[i].code}

\* The greatest element of a non-empty set of numbers.
Greatest(set) == CHOOSE m \in set : \A n \in set : n <= m

\* The value of a code after the events: that of its last event, or the
\* value of the state map the device was opened with.
LastValue(events, code, initial) ==
    IF \E j \in DOMAIN events : events[j].code = code
    THEN events[Greatest({j \in DOMAIN events : events[j].code = code})].value
    ELSE ValueIn(initial, code)

\* C13: every event the polls of a device returned carries as previous
\* value the value of the most recent earlier event of its code, or the
\* value the state map was opened with (0 without one); it carries the
\* device's domain and the namespace Input; and the state map of the device
\* holds for every code the value of its last event.
Thm_C13 ==
    \A d \in Domains :
        /\ \A i \in DOMAIN kernel[d].events :
              /\ kernel[d].events[i].previous_value =
                    IF EarlierOf(kernel[d].events, i) # {}
                    THEN kernel[d].events[Greatest(EarlierOf(kernel[d].events, i))].value
                    ELSE ValueIn(kernel[d].initial, kernel[d].events[i].code)
              /\ kernel[d].events[i].domain = d
              /\ kernel[d].events[i].namespace = "Input"
        /\ \A i \in InputDevicesOf(epoll) :
              epoll[i].domain = d =>
                  \A c \in Codes :
                      ValueIn(epoll[i].state, c) =
                          LastValue(kernel[d].events, c, kernel[d].initial)

\* A device without the key capability, opened while its axis was at 1, has
\* returned the key going down and up again and its axis event.
Witness_C13 ==
    /\ InputDevicesOf(epoll) # {}
    /\ "KEY_A" \notin DOMAIN kernel["d2"].initial
    /\ Len(kernel["d2"].events) = 3
    /\ kernel["d2"].events[1] = Event("EV_KEY", "KEY_A", 1, 0, "d2", "Input")
    /\ kernel["d2"].events[2] = Event("EV_KEY", "KEY_A", 0, 1, "d2", "Input")
    /\ kernel["d2"].events[3] = Event("EV_ABS", "ABS_X", 1, 1, "d2", "Input")

\* C14: when the library handle of a grabbed device has been freed, the
\* ungrab before it was a request to release the grab, and the device is
\* neither grabbed in the kernel nor flagged as grabbed.
Cx_C14 ==
    \A d \in Domains :
        (/\ kernel[d].freed
         /\ \E i \in DOMAIN kernel[d].calls : kernel[d].calls[i].by = "ungrab") =>
            /\ \A i \in DOMAIN kernel[d].calls :
                  kernel[d].calls[i].by = "ungrab" =>
                      kernel[d].calls[i].mode = "LIBEVDEV_UNGRAB"
            /\ ~kernel[d].grabbed
            /\ ~kernel[d].flag

NotSyn(event) == ~is_syn(event)

\* The events as the stream of a single device stamps them.
RECURSIVE Stamped(_)
Stamped(events) ==
    IF events = <<>> THEN <<>>
    ELSE <<[Head(events) EXCEPT !.namespace = "Output"]>> \o Stamped(Tail(events))

\* C15: the events the successful polls of the device returned are the
\* answers of the library, one event per answer and in the same order, and
\* the stream has been run on them one by one in that order: its outputs
\* and its staged buffer hold them in that order, and every SYN_REPORT
\* among them has run one syn().
Thm_C15 ==
    /\ Len(kernel["d2"].events) = Len(kernel["d2"].read)
    /\ \A i \in DOMAIN kernel["d2"].events :
          /\ kernel["d2"].events[i].code = kernel["d2"].read[i].code
          /\ kernel["d2"].events[i].value = kernel["d2"].read[i].value
    /\ Filter(setup.output["out2"], NotSyn) \o setup.staged_events =
          Stamped(Filter(kernel["d2"].events, NotSyn))
    /\ NumSyn(setup) = Len(Filter(kernel["d2"].events, is_syn))
    /\ setup.output["out1"] = [i \in 1 .. NumSyn(setup) |-> OutputSyn]

\* The polls have returned four events: the first two have been written to
\* the output by the syn() of the SYN_REPORT that followed them, and the
\* event read after it is staged.
Witness_C15 ==
    /\ Len(kernel["d2"].read) = 4
    /\ kernel["d2"].read[1].code = "KEY_A"
    /\ kernel["d2"].read[2].code = "ABS_X"
    /\ kernel["d2"].read[3].code = "SYN_REPORT"
    /\ kernel["d2"].read[4].code = "KEY_A"
    /\ Len(setup.staged_events) = 1
    /\ Len(setup.output["out2"]) = 3

(***************************************************************************)
(* Properties of the capability pass.                                      *)
(***************************************************************************)
\* C16: update_caps stores the capabilities of the device for its domain;
\* it hands new capabilities to the output system exactly when the domain
\* had none or the new ones are not compatible with the previous ones,
\* and then they are run_caps of the stream on the new input
\* capabilities; otherwise the output system is left as it is.
Thm_C16 ==
    /\ [](last_caps.call = "update_caps" =>
            /\ last_caps.domain \in DOMAIN setup.input_caps
            /\ setup.input_caps[last_caps.domain] = last_caps.new
            /\ last_caps.updated <=>
                  \/ ~last_caps.had_old
                  \/ ~is_compatible_with(last_caps.new, last_caps.old))
    /\ [][ (last_caps' # last_caps /\ last_caps'.call = "update_caps") =>
              /\ setup'.output = setup.output
              /\ \A d \in DOMAIN setup.input_caps :
                    d # last_caps'.domain =>
                        /\ d \in DOMAIN setup'.input_caps
                        /\ setup'.input_caps[d] = setup.input_caps[d]
              /\ IF last_caps'.updated
                 THEN setup'.output_caps =
                          run_caps(setup.stream, input_caps_to_vec(setup'.input_caps))
                 ELSE setup'.output_caps = setup.output_caps ]_vars

\* update_caps has been called for a domain with fewer capabilities than
\* the domain had, and the output system has been left as it was created.
Witness_C16 ==
    /\ last_caps.call = "update_caps"
    /\ last_caps.had_old
    /\ ~last_caps.updated
    /\ last_caps.new # last_caps.old
    /\ setup.output_caps # run_caps(setup.stream, input_caps_to_vec(setup.input_caps))

\* update_caps has handed new capabilities to the output system for a
\* device opened again with one capability more.
UpdatedOutput ==
    /\ last_caps.call = "update_caps"
    /\ last_caps.had_old
    /\ last_caps.updated
    /\ setup.output_caps # <<>>

\* Two capabilities differ in their value range only.
DiffersOnlyInValue(a, b) == SameButValue(a, b) /\ a.value # b.value

NoTwoDifferOnlyInValue(caps) ==
    \A i, j \in DOMAIN caps : ~DiffersOnlyInValue(caps[i], caps[j])

\* The capabilities the last update_caps or run_caps call got from run_caps.
LastCapsOut ==
    IF last_caps.call = "run_caps" THEN last_caps.output ELSE setup.output_caps

\* The capability vector the last update_caps or run_caps call ran.
LastCapsIn ==
    IF last_caps.call = "run_caps" THEN last_caps.input
    ELSE input_caps_to_vec(setup.input_caps)

\* Whether the aggregation step ran after the last entry of the stream.
AggregatedLast(stream, caps) ==
    LET aggregated == run_caps_from(1, stream, caps, Len(caps)).aggregated
    IN  aggregated # <<>> /\ aggregated[Len(aggregated)]

\* C18 (as stated): the vector run_caps returns holds only capabilities of
\* the namespace Output and no two capabilities that differ in their value
\* range only.
Cx_C18 ==
    /\ \A i \in DOMAIN LastCapsOut : LastCapsOut[i].namespace = "Output"
    /\ NoTwoDifferOnlyInValue(LastCapsOut)

\* C18 (amended): the vector run_caps returns holds only capabilities of
\* the namespace Output; it holds no two capabilities that differ in their
\* value range only when the aggregation step ran after the last entry of
\* the stream, which it does only when the vector has at least doubled
\* since the last aggregation.
Thm_C18 ==
    /\ \A i \in DOMAIN LastCapsOut : LastCapsOut[i].namespace = "Output"
    /\ AggregatedLast(setup.stream, LastCapsIn) =>
          NoTwoDifferOnlyInValue(LastCapsOut)

\* run_caps has dropped the capabilities of the other namespaces of a
\* vector and has returned two capabilities, after an aggregation step that
\* followed the last entry.
Witness_C18 ==
    /\ last_caps.call = "run_caps"
    /\ Len(last_caps.input) = 3
    /\ Len(last_caps.output) = 2
    /\ AggregatedLast(setup.stream, last_caps.input)

\* The stream as it was configured: no entry holds runtime state.
Pristine(stream) == [k \in DOMAIN stream |-> [stream[k] EXCEPT !.state = <<>>]]

Cx_C17 ==
    [][ (/\ loop = "dispatch"
         /\ messages # <<>>
         /\ Head(messages).index \in InputDevicesOf(epoll)
         /\ setup'.staged_events # setup.staged_events
                \/ setup'.output # setup.output
                \/ setup'.stream # setup.stream) =>
            setup.input_caps[epoll[Head(messages).index].domain] =
                epoll[Head(messages).index].capabilities ]_vars

\* C20: for the empty stream and a stream of Print entries, stream::run of
\* an event that is no SYN_REPORT leaves the staged events in place, appends
\* the event itself, once, when its namespace is Output, and appends
\* nothing otherwise.
Thm_C20 ==
    [][ (/\ nruns' = nruns + 1
         /\ ~is_syn(last_event')
         /\ \A k \in DOMAIN setup.stream : setup.stream[k].kind = "Print") =>
            /\ setup'.staged_events =
                  setup.staged_events
                      \o (IF last_event'.namespace = "Output"
                          THEN <<last_event'>> ELSE <<>>)
            /\ setup'.stream = setup.stream
            /\ setup'.output = setup.output
            /\ setup'.loopback = setup.loopback ]_vars

\* A stream of Print entries has staged the two Output events of three
\* events, in the order they were run.
Witness_C20 ==
    /\ setup.stream = <<PrintEntry, PrintEntry>>
    /\ nruns = 3
    /\ last_event.namespace \in {"Input", "User", "Yielded"}
    /\ setup.staged_events = <<KeyEvent("d1", "Output"), KeyEvent("d2", "Output")>>

\* The empty stream has staged the Output event of two events.
EmptyStreamStages ==
    /\ setup.stream = <<>>
    /\ nruns = 2
    /\ last_event.namespace = "User"
    /\ setup.staged_events = <<KeyEvent("d2", "Output")>>

(***************************************************************************)
(* Properties of the process.                                              *)
(***************************************************************************)
\* run() ended by a clean shutdown: --help or --version, a termination
\* signal, or the removal of the last input device.
CleanShutdown ==
    \/ process.cause = "help"
    \/ /\ process.cause = "loop"
       /\ \/ last_action.message = "Interrupted"
          \/ last_action.kind = "SignalFd" /\ last_action.what = "SIGTERM"
          \/ /\ last_action.kind = "InputDevice"
             /\ last_action.broken
             /\ NumInputDevices(epoll) = 0

\* run() ended because the signal descriptor was broken or unreadable.
SignalFdFatal ==
    /\ process.cause = "loop"
    /\ last_action.kind = "SignalFd"
    /\ \/ last_action.broken
       \/ last_action.what = "error"

\* C21: the exit code is 0 exactly when the run ended by a clean shutdown,
\* it is 1 when the run ended by a runtime error, a broken or unreadable
\* signal descriptor or a panic, and subprocess::terminate_all has run
\* before the process exits.
Cx_C21 ==
    process.stage = "exited" =>
        /\ process.terminated
        /\ process.exit_code = 0 <=> CleanShutdown
        /\ (process.result \in {"Err", "Panic"} \/ SignalFdFatal) =>
              process.exit_code = 1

\* The step handles the message at the head of the batch.
HandlesMessage == loop = "dispatch" /\ messages' # messages

\* The blueprint of the input device of the message is pending at the
\* persistence interface after the step, and was not before it.
HandsBlueprint ==
    /\ epoll[Head(messages).index].domain \in persist_subsystem'.blueprints
    /\ epoll[Head(messages).index].domain \notin persist_subsystem.blueprints

\* The step changes nothing of the program but its place in the batch.
ChangesNoState ==
    /\ epoll' = epoll
    /\ setup' = setup
    /\ persist_subsystem' = persist_subsystem
    /\ kernel' = kernel

\* What handling a source as broken does, whatever the rule for handing
\* the blueprint is.
BrokenSourceHandled ==
    /\ ~Epoll_has(epoll', Head(messages).index)
    /\ epoll[Head(messages).index].kind = "PersistSubsystem" =>
          /\ persist_subsystem'.state = "Error"
          /\ loop' \in {"poll", "dispatch"}
    /\ epoll[Head(messages).index].kind = "SignalFd" => loop' = "shutdown"

\* C22 (as stated): a source reported broken is removed from the poller;
\* the blueprint of an input device is handed to the persistence interface
\* exactly when its persist mode is Reopen; a broken persistence interface
\* is marked broken and the loop continues; a broken signal descriptor ends
\* the loop; a message for an index that is not registered changes no
\* state and the loop continues.
Cx_C22 ==
    [][ HandlesMessage =>
          /\ last_action'.broken =>
                /\ BrokenSourceHandled
                /\ epoll[Head(messages).index].kind = "InputDevice" =>
                      (HandsBlueprint <=>
                          epoll[Head(messages).index].persist_mode = "Reopen")
          /\ ~Epoll_has(epoll, Head(messages).index) =>
                /\ ChangesNoState
                /\ loop' \in {"poll", "dispatch"} ]_vars

\* C22 (amended): as stated, but the blueprint of an input device is
\* handed to the persistence interface exactly when its persist mode is
\* Reopen and the persistence interface is available, that is running
\* after HostInterfaceState::require; it is never handed for
\* PersistMode::None.
Thm_C22 ==
    [][ HandlesMessage =>
          /\ last_action'.broken =>
                /\ BrokenSourceHandled
                /\ epoll[Head(messages).index].kind = "InputDevice" =>
                      /\ HandsBlueprint <=>
                            /\ epoll[Head(messages).index].persist_mode = "Reopen"
                            /\ persist_subsystem'.state = "Running"
                      /\ epoll[Head(messages).index].persist_mode = "None" =>
                            persist_subsystem' = persist_subsystem
          /\ ~Epoll_has(epoll, Head(messages).index) =>
                /\ ChangesNoState
                /\ loop' \in {"poll", "dispatch"} ]_vars

\* An input device with PersistMode::Reopen has been handled as broken
\* while the persistence interface was marked broken: its blueprint is
\* pending nowhere.
Witness_C22 ==
    /\ last_action.kind = "InputDevice"
    /\ last_action.broken
    /\ last_action.domain = "d1"
    /\ persist_subsystem.state = "Error"
    /\ "d1" \notin persist_subsystem.blueprints
    /\ \A i \in DOMAIN epoll : epoll[i].kind = "InputDevice" => epoll[i].domain # "d1"

\* A message for an index without a file has been handled.
StaleMessageHandled ==
    /\ last_action.message \in {"Ready", "Broken"}
    /\ last_action.kind = "none"
    /\ loop \in {"poll", "dispatch"}

(***************************************************************************)
(* Properties of InputSystem.                                              *)
(***************************************************************************)
\* The number of inotify sources in the poller.
NumInotify(files) ==
    Cardinality({i \in DOMAIN files : files[i].kind = "Inotify"})

\* The request_inotify calls of the last poll.
RequestCalls ==
    SelectSeq(input_system.last.calls, LAMBDA call : call.fn = "request_inotify")

\* C23: the poller holds an inotify source only if an input device has been
\* reported broken before, and never more than one; a request_inotify
\* repeated with the same answer of the environment changes nothing more;
\* a request that fails prints the warning and leaves the devices of the
\* poller and the pending blueprints as they are.
Thm_C23 ==
    /\ NumInotify(input_system.epoll) <= 1
    /\ NumInotify(input_system.epoll) = 1 => input_system.ever_broken
    /\ \A answer \in InotifyAnswers :
          LET once == request_inotify(input_system, answer).sys
          IN  request_inotify(once, answer).sys = once
    /\ \A k \in DOMAIN RequestCalls :
          LET call == RequestCalls[k]
          IN  /\ has_inotify(call.before.epoll) =>
                    call.after = call.before /\ ~call.warned
              /\ call.warned =>
                    /\ call.after = call.before
                    /\ ~has_inotify(call.after.epoll)
              /\ ~call.warned => NumInotify(call.after.epoll) = 1

\* Two devices broke in one poll: the first request added the inotify and
\* the second found it there; the poller holds one inotify and both
\* blueprints are pending.
Witness_C23 ==
    /\ Len(RequestCalls) = 2
    /\ ~has_inotify(RequestCalls[1].before.epoll)
    /\ has_inotify(RequestCalls[2].before.epoll)
    /\ NumInotify(input_system.epoll) = 1
    /\ Len(input_system.broken_devices) = 2

\* A request_inotify failed and left a pending blueprint in place.
InotifyFailureWarned ==
    /\ Len(RequestCalls) = 1
    /\ RequestCalls[1].warned
    /\ Len(input_system.broken_devices) = 1
    /\ ~has_inotify(input_system.epoll)

\* The domains of the devices registered in a poller.
RegisteredDomains(files) ==
    {files[i].domain : i \in {k \in DOMAIN files : files[k].kind = "InputDevice"}}

\* The domains of a sequence of blueprints.
BlueprintDomains(blueprints) == {blueprints[i].domain : i \in DOMAIN blueprints}

\* C28: after poll handles a BrokenInputDevice its blueprint is in
\* broken_devices, and after try_reopen_broken_devices every blueprint that
\* was pending is either registered in the poller as an opened device or
\* still in broken_devices, in the original order, never both and never
\* neither.
Cx_C28 ==
    \A k \in DOMAIN input_system.last.calls :
        LET call == input_system.last.calls[k]
        IN  /\ call.fn = "push" =>
                  call.domain \in BlueprintDomains(call.after.broken_devices)
            /\ call.fn = "try_reopen_broken_devices" =>
                  /\ IsSubseq(call.after.broken_devices, call.before.broken_devices)
                  /\ \A d \in BlueprintDomains(call.before.broken_devices) :
                        (d \in RegisteredDomains(call.after.epoll))
                            # (d \in BlueprintDomains(call.after.broken_devices))

(***************************************************************************)
(* Properties of stream::run and run_event.                                *)
(***************************************************************************)
\* The step is a call of stream::run.
IsRun == nruns' = nruns + 1

\* The step has called syn(): every output device has emitted a SYN_REPORT.
CallsSyn == NumSyn(setup') = NumSyn(setup) + 1

\* C24: stream::run calls syn() and bypasses the stream exactly when its
\* event is a SYN_REPORT; every other event is passed to run_event, routes
\* nothing to the outputs, emits no output SYN_REPORT, and leaves the
\* staged buffer as it was but for the events it appends.
Cx_C24 ==
    [][ IsRun =>
          /\ CallsSyn <=> last_event'.code = "SYN_REPORT"
          /\ last_event'.code = "SYN_REPORT" =>
                /\ visits' = <<>>
                /\ setup'.stream = setup.stream
          /\ last_event'.code # "SYN_REPORT" =>
                /\ visits' # <<>>
                /\ setup'.output = setup.output
                /\ SubSeq(setup'.staged_events, 1, Len(setup.staged_events))
                      = setup.staged_events ]_vars

\* The records of the entries the pass applied, and the entries as they
\* are after the step.
Consecutive(pass, first) ==
    /\ Len(pass.applied) = Len(setup'.stream) - first + 1
    /\ \A j \in DOMAIN pass.applied : pass.applied[j].index = first + j - 1

\* C25: run_event applies every entry of its substream exactly once, in
\* index order; the first entry is given the single input event and every
\* other entry the batch the entry before it wrote; after an entry that
\* wrote nothing every entry is given the empty batch; a Print entry
\* leaves the batch as it is.
Thm_C25 ==
    [][ \A k \in DOMAIN visits' :
          LET pass == visits'[k]
          IN  /\ Consecutive(pass, pass.index + 1)
              /\ pass.applied # <<>> => pass.applied[1].events = <<pass.event>>
              /\ \A j \in DOMAIN pass.applied :
                    /\ j > 1 => pass.applied[j].events = pass.applied[j - 1].written
                    /\ pass.applied[j].written = <<>> =>
                          \A i \in DOMAIN pass.applied :
                              i > j => pass.applied[i].events = <<>>
                    /\ setup.stream[pass.applied[j].index].kind = "Print" =>
                          pass.applied[j].written = pass.applied[j].events ]_vars

\* run_event has applied five entries to one event: the second entry, a
\* Delay, wrote nothing and the Print entry and the entries after it were
\* given the empty batch.
Witness_C25 ==
    /\ Len(visits) = 1
    /\ visits[1].index = 0
    /\ Len(visits[1].applied) = 5
    /\ visits[1].applied[1].written # <<>>
    /\ visits[1].applied[2].written = <<>>
    /\ setup.stream[3].kind = "Print"
    /\ visits[1].applied[5].events = <<>>

\* A Print entry has been given an event and the Map after it has written
\* two events for it.
PrintKeepsBatch ==
    /\ Len(visits) = 1
    /\ Len(visits[1].applied) = 3
    /\ setup.stream[1].kind = "Print"
    /\ visits[1].applied[1].written = <<visits[1].event>>
    /\ Len(visits[1].applied[2].written) = 2

\* The tokens the entries of a stream hold.
TokensOf(entry) == {entry.state[i].token : i \in DOMAIN entry.state}

AllTokens(stream) == UNION {TokensOf(stream[k]) : k \in DOMAIN stream}

\* The entries that hold the token.
Holders(stream, token) == {k \in DOMAIN stream : token \in TokensOf(stream[k])}

\* C29: stream::wakeup terminates.  Every call returns; every pass wakes
\* each entry exactly once, in order; the token of the pass is held by no
\* entry afterwards, and a token scheduled during the pass is held by an
\* entry behind the entry that held the token of the pass.
Thm_C29 ==
    /\ (pc = "wakeup") ~> (pc = "idle")
    /\ [][ delivered' # delivered =>
              LET pass == delivered'[Len(delivered')]
              IN  /\ pass.woken = [k \in 1 .. Len(setup.stream) |-> k]
                  /\ pass.token \notin AllTokens(setup'.stream)
                  /\ \A j \in DOMAIN setup'.stream :
                        \A token \in TokensOf(setup'.stream[j])
                                        \ AllTokens(setup.stream) :
                            \A h \in Holders(setup.stream, pass.token) : j > h ]_vars

\* One event has been run; a wakeup call has popped the token of the first
\* Delay and then the token the zero Delay scheduled for the same instant
\* during the first pass, and has returned with an empty schedule.
Witness_C29 ==
    /\ pc = "idle"
    /\ nruns = 1
    /\ popped = 2
    /\ Len(delivered) = 2
    /\ delivered[1].instant = delivered[2].instant
    /\ delivered[1].token < delivered[2].token
    /\ setup.stream[4].period = 0
    /\ setup.loopback.schedule = <<>>

(***************************************************************************)
(* Properties of run_caps.                                                 *)
(***************************************************************************)
\* The stream and the capability vector of the last run_caps.
LastStream ==
    IF last_caps.call = "run_caps_on" THEN last_caps.stream ELSE setup.stream

LastInput ==
    IF last_caps.call \in {"run_caps", "run_caps_on"} THEN last_caps.input
    ELSE input_caps_to_vec(setup.input_caps)

LastRun == run_caps_from(1, LastStream, LastInput, Len(LastInput))

\* The vector that enters entry k.
Entering(r, k) == IF k = 1 THEN LastInput ELSE r.vectors[k - 1]

\* The number of capabilities recorded at the last aggregation before
\* entry k: initially the size of the input.
Recorded(r, k) ==
    LET before == {j \in 1 .. k - 1 : r.aggregated[j]}
    IN  IF before = {} THEN Len(LastInput)
        ELSE r.sizes[CHOOSE j \in before : \A i \in before : i <= j]

\* The entry is a Map that splits the value range of every capability of
\* the vector in two: it writes two capabilities that differ from the
\* capability, and from each other, in their value range only.
SplitsInTwo(entry, caps) ==
    /\ entry.kind = "Map"
    /\ \A i \in DOMAIN caps :
          LET parts == Map_apply_to_all_caps(entry, <<caps[i]>>)
          IN  /\ Len(parts) = 2
              /\ SameButValue(parts[1], caps[i])
              /\ SameButValue(parts[2], caps[i])
              /\ parts[1].value # parts[2].value

\* Every entry of the stream splits every capability that enters it.
SplittingStream(r) ==
    \A k \in DOMAIN LastStream : SplitsInTwo(LastStream[k], Entering(r, k))

\* C26: after each entry of run_caps the aggregation step runs if and only
\* if the vector holds at least twice the number of capabilities recorded
\* at the last aggregation (initially the size of the input); when it runs
\* no two capabilities that differ in value only are left, when it does
\* not the vector is as the entry left it; and for a stream of Maps that
\* each split the value range of every capability in two, the vector never
\* holds more than twice the capabilities of the input.
Thm_C26 ==
    LET r == LastRun
    IN  /\ \A k \in DOMAIN LastStream :
              /\ r.aggregated[k] <=> r.applied[k] >= 2 * Recorded(r, k)
              /\ r.aggregated[k] => NoTwoDifferOnlyInValue(r.vectors[k])
              /\ ~r.aggregated[k] => r.sizes[k] = r.applied[k]
        /\ SplittingStream(r) =>
              \A k \in DOMAIN LastStream :
                  /\ r.applied[k] <= 2 * Len(LastInput)
                  /\ r.sizes[k] <= 2 * Len(LastInput)

\* run_caps has run a stream of three Maps that each split the value range
\* of both capabilities of the input: every entry left four capabilities
\* and every aggregation step merged them into two.
Witness_C26 ==
    /\ last_caps.call = "run_caps_on"
    /\ Len(LastStream) = 3
    /\ Len(LastInput) = 2
    /\ SplittingStream(LastRun)
    /\ LastRun.applied = <<4, 4, 4>>
    /\ LastRun.aggregated = <<TRUE, TRUE, TRUE>>
    /\ LastRun.sizes = <<2, 2, 2>>

\* run_caps has passed an entry that made the vector grow, by less than
\* the double of the recorded size, and has not aggregated after it.
GrownNotAggregated ==
    \E k \in DOMAIN LastStream :
        /\ LastRun.applied[k] > Len(Entering(LastRun, k))
        /\ ~LastRun.aggregated[k]

\* The entries whose arm of run_caps is `()`.
IdentityKinds == {"Merge", "Print", "Delay", "Withhold"}

\* C27: in run_caps the vector that leaves a Merge, Print, Delay or
\* Withhold entry is the vector that entered it, and a stream made of these
\* entries only returns exactly the capabilities of namespace Output of its
\* input, in their order.
Thm_C27 ==
    LET r == LastRun
    IN  /\ \A k \in DOMAIN LastStream :
              LastStream[k].kind \in IdentityKinds => r.vectors[k] = Entering(r, k)
        /\ (/\ last_caps.call \in {"run_caps", "run_caps_on"}
            /\ \A k \in DOMAIN LastStream : LastStream[k].kind \in IdentityKinds) =>
              last_caps.output = Filter(LastInput, IsOutputCap)

\* run_caps has run a stream of a Merge, a Print, a Delay and a Withhold
\* on four capabilities and has returned the two of namespace Output, which
\* differ in their value range only.
Witness_C27 ==
    /\ last_caps.call = "run_caps_on"
    /\ [k \in DOMAIN LastStream |-> LastStream[k].kind] =
          <<"Merge", "Print", "Delay", "Withhold">>
    /\ Len(LastInput) = 4
    /\ Len(last_caps.output) = 2
    /\ ~NoTwoDifferOnlyInValue(last_caps.output)

\* run_caps has passed a Merge, a Delay, a Withhold and a Print entry
\* between Maps, with capabilities that differ in value only entering them.
IdentityAmongMaps ==
    /\ last_caps.call = "run_caps_on"
    /\ Len(LastStream) = 7
    /\ \E k \in DOMAIN LastStream :
          /\ LastStream[k].kind \in IdentityKinds
          /\ ~NoTwoDifferOnlyInValue(Entering(LastRun, k))
====
